---- MODULE Spec2Model ----
(***************************************************************************)
(* Robinhood client of manjha-chat: device token registry, session         *)
(* manager, login orchestrator with its challenge resolution (code         *)
(* challenge, device-approval poll) and logout.                            *)
(*                                                                         *)
(* A call of an async function is a process: its position (pc) is the      *)
(* await it is suspended at, and one action runs the code from the         *)
(* completion of that await to the next await or to the return.  A store   *)
(* operation (session read, write, delete) takes effect when its await     *)
(* completes.  Local variables are reset to their default once the code    *)
(* no longer reads them.                                                   *)
(***************************************************************************)
EXTENDS Integers, Sequences, FiniteSets, TLC

(* ------------------------------ domains -------------------------------- *)

Users == {"u1", "u2"}
DeviceTokens == {"d1", "d2"}
AccessTokens == {"a1", "a2"}
ChallengeIds == {"c1"}
ChallengeKinds == {"sms", "email", "app", "prompt"}
\* pathfinderData.id, the inquiry of a verification workflow
InquiryIds == {"i1"}
None == "none"

\* call slots (requests the server handles at the same time)
Calls == {1, 2}

\* the clock advances in steps of one second, MaxTicks times at most
MaxTicks == 2
\* expires_in of a token response, in seconds
MaxExpiresIn == 1
\* remaining_attempts reported by the challenge endpoint
MaxRemaining == 2

\* pollPromptStatus(challengeId, maxAttempts = 6, delayMs = 2000)
maxAttempts == 6
delayMs == 2000

VARIABLES
  deviceTokenStore,  \* Map<userId, device token>
  sessionStore,      \* Map<userId, session>
  now,               \* Date.now(), in ms
  call,              \* call slot -> the async call running in it
  sent,              \* the upstream request issued by the last step
  ret,               \* the value returned to the caller by the last step
  issued,            \* userId -> what the registry last did for the user
  polled,            \* challenge ids whose status has been polled
  dialog             \* the login dialog of the user's browser

vars ==
  <<deviceTokenStore, sessionStore, now, call, sent, ret, issued, polled,
    dialog>>

(* ------------------------------- maps ---------------------------------- *)

Has(m, k) == k \in DOMAIN m
MapSet(m, k, v) == [x \in DOMAIN m \cup {k} |-> IF x = k THEN v ELSE m[x]]
MapDelete(m, k) == [x \in DOMAIN m \ {k} |-> m[x]]
EmptyMap == [x \in {} |-> None]

(* ------------------------ device token registry ------------------------ *)

\* variant: the stored token is ignored, every call generates
getOrCreateDeviceTokenAlwaysNew(store, userId, fresh) == fresh

\* the token getOrCreateDeviceToken returns when generateDeviceToken yields fresh
getOrCreateDeviceToken(store, userId, fresh) ==
  IF Has(store, userId) THEN store[userId] ELSE fresh

\* the registry after getOrCreateDeviceToken
getOrCreateDeviceTokenStore(store, userId, fresh) ==
  IF Has(store, userId) THEN store ELSE MapSet(store, userId, fresh)

clearDeviceToken(store, userId) == MapDelete(store, userId)

resetDeviceToken(store, userId) == MapDelete(store, userId)

(* --------------------------- session manager --------------------------- *)

\* variant: a session counts as valid up to and including expiresAt
getSessionInclusive(store, userId, t) ==
  IF Has(store, userId) /\ store[userId].expiresAt >= t
    THEN {store[userId]}
    ELSE {}

\* the session getSession returns: a set with the session, or the empty set
getSession(store, userId, t) ==
  IF Has(store, userId) /\ store[userId].expiresAt > t
    THEN {store[userId]}
    ELSE {}

\* variant: an expired session is left in the store
getSessionStoreKeeps(store, userId, t) == store

\* the store after getSession: an expired session is removed
getSessionStore(store, userId, t) ==
  IF Has(store, userId) /\ ~(store[userId].expiresAt > t)
    THEN MapDelete(store, userId)
    ELSE store

setSession(store, userId, session) == MapSet(store, userId, session)

\* variant: clearSession drops the session of every user
clearSessionOfAll(store, userId) == EmptyMap

clearSession(store, userId) == MapDelete(store, userId)

getConnectionStatus(store, userId, t) ==
  LET session == getSession(store, userId, t)
  IN [connected |-> session # {},
      expiresAt |-> {s.expiresAt : s \in session}]

(* ------------------------------- calls --------------------------------- *)

NoSession == [accessToken |-> None, expiresAt |-> 0, accountId |-> None]
NoData == [wf |-> FALSE, mfa_required |-> FALSE, challenge |-> None,
           error_description |-> FALSE, detail |-> FALSE, message |-> FALSE,
           challenge_type |-> None, mfa_required_challenge |-> None,
           ok |-> FALSE, error |-> None,
           access_token |-> None, expires_in |-> 0]
NoReply == [status |-> None, challenge |-> FALSE, remaining_attempts |-> -1]
ThrownReply == [status |-> "throw", challenge |-> FALSE, remaining_attempts |-> -1]

Idle ==
  [pc |-> "idle", user |-> None,
   deviceToken |-> None,       \* const deviceToken
   mfaCode |-> FALSE,          \* a (truthy) mfaCode argument was passed
   challengeId |-> None,       \* the challengeId argument
   reply |-> NoReply,          \* challengeData
   data |-> NoData,            \* data, the body of the token response
   sheriff |-> None,           \* sheriffChallenge.id
   inquiry |-> None,           \* pathfinderData.id
   tokenRequests |-> 0,        \* oauth2/token requests the call has sent
   accounts |-> None,          \* outcome of the accounts request
   attempt |-> 0,              \* the loop variable of pollPromptStatus
   delays |-> <<>>,            \* the delay waited before each status check
   firstValidated |-> 0,       \* index of the first check that saw validated
   session |-> NoSession,      \* const session
   respondedAt |-> 0,          \* Date.now() when the token response arrived
   thrown |-> None,            \* the await whose exception ended the call
   cancelled |-> None,         \* where the call was when its request was
                               \* cancelled
   name |-> None,              \* the data operation the call runs
   tool |-> FALSE,             \* the call was made by a tool of the assistant
   unified |-> None,           \* outcome of the unified-account request
   world |-> [cash |-> 0, stocks |-> <<>>, holdings |-> <<>>,
              options |-> <<>>, orders |-> <<>>,
              holdingsOk |-> FALSE, optionsOk |-> FALSE,
              \* the unified account (-1: the reply lacks the field)
              account |-> [total_equity |-> 0, portfolio_equity |-> 0,
                           uninvested_cash |-> 0, account_buying_power |-> 0,
                           total_previous_close |-> -1,
                           previous_close |-> -1,
                           portfolio_previous_close |-> -1,
                           crypto_buying_power |-> -1,
                           options_buying_power |-> -1,
                           equities |-> -1, crypto |-> -1]],
                               \* the broker's data the call has fetched
   seen |-> <<>>,              \* allPositions / positions.results / allOrders
   totalStockValue |-> 0,
   totalStockPreviousClose |-> 0,
   totalCryptoValue |-> 0,
   revoke |-> None,            \* outcome of the revoke_token request
   pollError |-> FALSE,        \* a status check was non-2xx or threw
   resumed |-> FALSE,          \* an earlier call polled the same challenge
   elders |-> {},              \* logins of the user in flight at entry
   stale |-> FALSE,            \* a login that started later has returned
   loggedOut |-> FALSE]        \* a logout of the user has returned meanwhile
                               \* success while this call was in flight

\* issued[u]: "issued" t after getOrCreateDeviceToken returned t, "cleared" t
\* after a clear or reset that removed t, "none" before the first token
Issued(state, token) == [state |-> state, token |-> token]
NoGot == [token |-> None, generated |-> FALSE, prior |-> Issued("none", None)]

NoSent == [kind |-> "none", user |-> None, deviceToken |-> None,
           challengeId |-> None, mfaCode |-> FALSE, header |-> None,
           inquiry |-> None, got |-> NoGot, reply |-> NoReply]
NoRet == [op |-> "none", user |-> None]

\* a response body without any of the fields the dialog reads
NoResult ==
  [success |-> FALSE, mfaRequired |-> FALSE,
   deviceVerificationRequired |-> FALSE, shouldRetry |-> FALSE,
   challengeId |-> None, challengeType |-> None,
   error |-> [text |-> None, n |-> 0]]

\* the dialog when it opens: useState of step, challengeId, challengeType,
\* error and isLoading (pc = "idle" when isLoading is false), with the locals
\* of the handler that is running
DialogInit ==
  [step |-> "credentials",
   challengeId |-> None,
   challengeType |-> None,
   error |-> [text |-> None, n |-> 0],
   pc |-> "idle",              \* the await the running handler is suspended at
   handler |-> None,           \* the handler that runs or ran last
   from |-> "credentials",     \* step when that handler was started
   request |-> [action |-> None, mfaCode |-> FALSE, challengeId |-> None],
                               \* body of the request that is in flight
   attempt |-> 0,              \* the loop variable of the retry handler
   delays |-> <<>>,            \* the delay waited before each attempt
   data |-> NoResult,          \* data, the first response of the attempt
   log |-> <<>>,               \* how each earlier attempt of the run ended
   logins |-> 0,               \* login requests the run has posted
   resolved |-> None]          \* challenge that the login which answered
                               \* shouldRetry had seen validated

Init ==
  /\ deviceTokenStore = EmptyMap
  /\ sessionStore = EmptyMap
  /\ now = 0
  /\ call = [c \in Calls |-> Idle]
  /\ sent = NoSent
  /\ ret = NoRet
  /\ issued = [u \in Users |-> Issued("none", None)]
  /\ polled = {}
  /\ dialog = DialogInit

(* ------------------------------- clock --------------------------------- *)

Tick ==
  /\ now < MaxTicks * 1000
  /\ now' = now + 1000
  /\ sent' = NoSent
  /\ ret' = NoRet
  /\ UNCHANGED <<deviceTokenStore, sessionStore, call, issued, polled, dialog>>

\* the registry entry of a user is removed
Cleared(was) == IF was.state = "issued" THEN Issued("cleared", was.token) ELSE was

(* ------------------------ status and reset routes ---------------------- *)

\* GET /api/robinhood
Status(userId) ==
  /\ ret' = [op |-> "status", user |-> userId,
             result |-> getConnectionStatus(sessionStore, userId, now),
             read |-> IF Has(sessionStore, userId)
                        THEN {sessionStore[userId]} ELSE {},
             at |-> now]
  /\ sessionStore' = getSessionStore(sessionStore, userId, now)
  /\ sent' = NoSent
  /\ UNCHANGED <<deviceTokenStore, now, call, issued, polled, dialog>>

\* POST /api/robinhood {action: "resetDevice"}
ResetDevice(userId) ==
  /\ deviceTokenStore' = resetDeviceToken(deviceTokenStore, userId)
  /\ ret' = [op |-> "resetDevice", user |-> userId,
             held |-> IF Has(deviceTokenStore, userId)
                        THEN {deviceTokenStore[userId]} ELSE {}]
  /\ sent' = NoSent
  /\ issued' = [issued EXCEPT ![userId] = Cleared(@)]
  /\ UNCHANGED <<sessionStore, now, call, polled, dialog>>

(* ------------------------- upstream responses -------------------------- *)

\* bodies of the oauth2/token response, with response.ok
TokenData(wf, mfa, ch, ty, mrc, ok, err, descr, det, msg, tok, exp) ==
  [wf |-> wf, mfa_required |-> mfa, challenge |-> ch, challenge_type |-> ty,
   mfa_required_challenge |-> mrc, ok |-> ok, error |-> err,
   error_description |-> descr, detail |-> det, message |-> msg,
   access_token |-> tok, expires_in |-> exp]

TokenResponses ==
  \* verification_workflow, alone or with fields of the later rules
  { TokenData(TRUE, FALSE, None, None, None, FALSE, None, FALSE, FALSE, FALSE, None, 0),
    TokenData(TRUE, TRUE, None, None, None, FALSE, None, FALSE, FALSE, FALSE, None, 0),
    TokenData(TRUE, FALSE, None, None, None, FALSE, "string", FALSE, TRUE, FALSE, None, 0) }
  \cup
  { TokenData(TRUE, FALSE, None, None, None, TRUE, None, FALSE, FALSE, FALSE, tok, exp) :
      tok \in AccessTokens, exp \in 1..MaxExpiresIn }
  \cup
  \* mfa_required or challenge, alone or with fields of the later rules
  { TokenData(FALSE, TRUE, None, None, mrc, FALSE, None, FALSE, FALSE, FALSE, None, 0) :
      mrc \in ChallengeIds \cup {None} }
  \cup
  { TokenData(FALSE, FALSE, ch, ty, None, FALSE, err, FALSE, FALSE, FALSE, None, 0) :
      ch \in ChallengeIds, ty \in {"sms", None}, err \in {None, "string"} }
  \cup
  { TokenData(FALSE, TRUE, None, None, None, TRUE, None, FALSE, FALSE, FALSE, tok, 1) :
      tok \in AccessTokens }
  \cup
  \* a non-2xx status or an error field, with and without an access_token
  { TokenData(FALSE, FALSE, None, None, None, ok, err, descr, det, msg, None, 0) :
      ok \in BOOLEAN, err \in {None, "string", "object"},
      descr \in BOOLEAN, det \in BOOLEAN, msg \in {FALSE} }
  \cup
  { TokenData(FALSE, FALSE, None, None, None, FALSE, None, FALSE, FALSE, TRUE, tok, 1) :
      tok \in AccessTokens }
  \cup
  { TokenData(FALSE, FALSE, None, None, None, TRUE, "string", FALSE, FALSE, FALSE, tok, 1) :
      tok \in AccessTokens }
  \cup
  \* a 2xx reply with an access_token
  { TokenData(FALSE, FALSE, None, None, None, TRUE, None, FALSE, FALSE, FALSE, tok, exp) :
      tok \in AccessTokens, exp \in 1..MaxExpiresIn }

\* bodies of the challenge/<id>/respond reply
ChallengeReplies ==
  { [status |-> "validated", challenge |-> FALSE, remaining_attempts |-> -1],
    [status |-> "validated", challenge |-> TRUE, remaining_attempts |-> MaxRemaining],
    [status |-> "unknown", challenge |-> FALSE, remaining_attempts |-> -1],
    [status |-> "issued", challenge |-> TRUE, remaining_attempts |-> -1] }
  \cup
  { [status |-> "issued", challenge |-> TRUE, remaining_attempts |-> n] :
      n \in 0..MaxRemaining }

(* ------------------------------ results -------------------------------- *)

Msg(text, n) == [text |-> text, n |-> n]
NoMsg == Msg(None, 0)

Result(success, mfa, dev, retry, ch, ty, err) ==
  [success |-> success, mfaRequired |-> mfa,
   deviceVerificationRequired |-> dev, shouldRetry |-> retry,
   challengeId |-> ch, challengeType |-> ty, error |-> err]

\* variant: the challenge id is dropped from the invalid-code result
InvalidCodeResultNoChallenge(challengeId, remaining) ==
  Result(FALSE, TRUE, FALSE, FALSE, None, "sms",
         Msg("Invalid code. attempts remaining.", remaining))

\* `Invalid code. ${remaining_attempts} attempts remaining.`
InvalidCodeResult(challengeId, remaining) ==
  Result(FALSE, TRUE, FALSE, FALSE, challengeId, "sms",
         Msg("Invalid code. attempts remaining.", remaining))

ShouldRetryResult ==
  Result(FALSE, FALSE, FALSE, TRUE, None, None, NoMsg)

\* variant: an exhausted poll is reported as a plain failure
StillPendingAsFailure(challengeId) ==
  Result(FALSE, FALSE, FALSE, FALSE, None, None,
         Msg("Please approve the login on your Robinhood app, then click Continue.", 0))

StillPendingResult(challengeId) ==
  Result(FALSE, FALSE, TRUE, FALSE, challengeId, None,
         Msg("Please approve the login on your Robinhood app, then click Continue.", 0))

SheriffMfaResult(challengeId, challengeType) ==
  Result(FALSE, TRUE, FALSE, FALSE, challengeId,
         IF challengeType # None THEN challengeType ELSE "sms", NoMsg)

PathfinderFallbackResult ==
  Result(FALSE, FALSE, FALSE, FALSE, None, None,
         Msg("Robinhood requires device verification.", 0))

MfaResult(data) ==
  Result(FALSE, TRUE, FALSE, FALSE,
         IF data.challenge # None THEN data.challenge
                                  ELSE data.mfa_required_challenge,
         IF data.challenge # None /\ data.challenge_type # None
           THEN data.challenge_type ELSE "app",
         NoMsg)

\* variant: detail is looked at before error_description
errorMessageDetailFirst(data) ==
  IF data.detail THEN "detail"
  ELSE IF data.error_description THEN "error_description"
  ELSE IF data.message THEN "message"
  ELSE IF data.error = "string" THEN "error"
  ELSE "Login failed. Please check your credentials."

\* data.error_description || data.detail || data.message || (data.error when
\* it is a string) || the generic message; a field counts when it is truthy
errorMessage(data) ==
  IF data.error_description THEN "error_description"
  ELSE IF data.detail THEN "detail"
  ELSE IF data.message THEN "message"
  ELSE IF data.error = "string" THEN "error"
  ELSE "Login failed. Please check your credentials."

ErrorResult(data) ==
  Result(FALSE, FALSE, FALSE, FALSE, None, None, Msg(errorMessage(data), 0))

\* variant: the success result repeats the retry flag of the poll
SuccessResultWithRetry == Result(TRUE, FALSE, FALSE, TRUE, None, None, NoMsg)

SuccessResult == Result(TRUE, FALSE, FALSE, FALSE, None, None, NoMsg)

UnexpectedResult ==
  Result(FALSE, FALSE, FALSE, FALSE, None, None,
         Msg("Unexpected response from Robinhood", 0))

\* the outer catch of login
CaughtResult ==
  Result(FALSE, FALSE, FALSE, FALSE, None, None, Msg("error.message", 0))

\* variant: the access_token is looked at first
loginBranchTokenFirst(data) ==
  IF data.access_token # None THEN "success"
  ELSE IF data.wf THEN "workflow"
  ELSE IF data.mfa_required \/ data.challenge # None THEN "mfa"
  ELSE IF ~data.ok \/ data.error # None THEN "error"
  ELSE "unexpected"

\* the branch of login's if-chain that a token response takes
loginBranch(data) ==
  IF data.wf THEN "workflow"
  ELSE IF data.mfa_required \/ data.challenge # None THEN "mfa"
  ELSE IF ~data.ok \/ data.error # None THEN "error"
  ELSE IF data.access_token # None THEN "success"
  ELSE "unexpected"

(* ------------------------------- login --------------------------------- *)

\* variant: expires_in is added as if it were milliseconds
newSessionUnscaled(data, t) ==
  [accessToken |-> data.access_token,
   expiresAt |-> t + data.expires_in,
   accountId |-> None]

\* const session = { accessToken, refreshToken, expiresAt }, built at time t
newSession(data, t) ==
  [accessToken |-> data.access_token,
   expiresAt |-> t + data.expires_in * 1000,
   accountId |-> None]

LoginPcs == {"challengeRespond", "tokenRequest", "pathfinder", "inquiry",
             "pollCheck", "pollSleep", "continue", "accounts", "setSession"}

\* the oauth2/token request: body.device_token, body.mfa_code,
\* body.challenge_id and the X-ROBINHOOD-CHALLENGE-RESPONSE-ID header
TokenRequest(userId, deviceToken, withCode, challengeId) ==
  [kind |-> "token", user |-> userId, deviceToken |-> deviceToken,
   mfaCode |-> withCode,
   challengeId |-> IF withCode THEN challengeId ELSE None,
   header |-> challengeId, inquiry |-> None, got |-> NoGot,
   reply |-> NoReply]

Request(kind, userId, deviceToken, challengeId) ==
  [kind |-> kind, user |-> userId, deviceToken |-> deviceToken,
   mfaCode |-> FALSE, challengeId |-> challengeId, header |-> None,
   inquiry |-> None, got |-> NoGot, reply |-> NoReply]

\* login returns result; obs is the frame of the call when it returns
LoginReturn(obs, result) ==
  /\ ret' = [op |-> "login", user |-> obs.user, result |-> result,
             obs |-> obs]
  /\ sent' = NoSent

\* the call slots in which a login of userId is in flight
LoginsInFlight(userId) ==
  {d \in Calls : call[d].user = userId /\ call[d].pc \in LoginPcs}

\* the call in slot c returns: no call counts it among its elders any more
Leave(c) ==
  [d \in Calls |->
     IF d = c THEN Idle ELSE [call[d] EXCEPT !.elders = @ \ {c}]]

\* entry of login: the device token is read, then either the challenge
\* response or the token request is sent
LoginStart(c, userId, mfaCode, challengeId, fresh) ==
  /\ call[c].pc = "idle"
  /\ LET deviceToken == getOrCreateDeviceToken(deviceTokenStore, userId, fresh)
         got == [token |-> deviceToken,
                 generated |-> ~Has(deviceTokenStore, userId),
                 prior |-> issued[userId]]
         frame == [Idle EXCEPT !.user = userId,
                               !.deviceToken = deviceToken,
                               !.elders = LoginsInFlight(userId)]
     IN /\ deviceTokenStore' =
             getOrCreateDeviceTokenStore(deviceTokenStore, userId, fresh)
        /\ issued' = [issued EXCEPT ![userId] = Issued("issued", deviceToken)]
        /\ IF mfaCode /\ challengeId # None
             THEN /\ call' = [call EXCEPT ![c] =
                       [frame EXCEPT !.pc = "challengeRespond",
                                     !.mfaCode = mfaCode,
                                     !.challengeId = challengeId]]
                  /\ sent' = [Request("challenge", userId, None, challengeId)
                                EXCEPT !.got = got]
             ELSE /\ call' = [call EXCEPT ![c] =
                       [frame EXCEPT !.pc = "tokenRequest",
                                     !.tokenRequests = 1]]
                  /\ sent' = [TokenRequest(userId, deviceToken, FALSE, challengeId)
                                EXCEPT !.got = got]
  /\ ret' = NoRet
  /\ UNCHANGED <<sessionStore, now, polled, dialog>>

\* variant: a challenge request that throws ends login with a failure
LoginChallengeResponseFailsClosed(c, reply, thrown) ==
  /\ call[c].pc = "challengeRespond"
  /\ IF thrown
       THEN /\ LoginReturn([call[c] EXCEPT !.thrown = "challenge"], CaughtResult)
            /\ call' = Leave(c)
     ELSE IF /\ ~(reply.status = "validated" \/ ~reply.challenge)
             /\ reply.remaining_attempts # -1
       THEN /\ LoginReturn([call[c] EXCEPT !.reply = reply],
                   InvalidCodeResult(call[c].challengeId,
                                     reply.remaining_attempts))
            /\ call' = Leave(c)
       ELSE /\ call' = [call EXCEPT ![c].pc = "tokenRequest",
                                    ![c].tokenRequests = @ + 1,
                                    ![c].mfaCode = FALSE,
                                    ![c].challengeId = None]
            /\ sent' = [TokenRequest(call[c].user, call[c].deviceToken,
                                     call[c].mfaCode, call[c].challengeId)
                          EXCEPT !.reply = reply]
            /\ ret' = NoRet
  /\ UNCHANGED <<deviceTokenStore, sessionStore, now, issued, polled, dialog>>

\* the reply of challenge/<id>/respond arrives, or the request throws
LoginChallengeResponse(c, reply, thrown) ==
  /\ call[c].pc = "challengeRespond"
  /\ IF /\ ~thrown
        /\ ~(reply.status = "validated" \/ ~reply.challenge)
        /\ reply.remaining_attempts # -1
       THEN /\ LoginReturn([call[c] EXCEPT !.reply = reply],
                   InvalidCodeResult(call[c].challengeId,
                                     reply.remaining_attempts))
            /\ call' = Leave(c)
       ELSE /\ call' = [call EXCEPT ![c].pc = "tokenRequest",
                                    ![c].tokenRequests = @ + 1,
                                    ![c].mfaCode = FALSE,
                                    ![c].challengeId = None]
            /\ sent' = [TokenRequest(call[c].user, call[c].deviceToken,
                                     call[c].mfaCode, call[c].challengeId)
                          EXCEPT !.reply = IF thrown THEN ThrownReply ELSE reply]
            /\ ret' = NoRet
  /\ UNCHANGED <<deviceTokenStore, sessionStore, now, issued, polled, dialog>>

\* the token response arrives (data), or fetch / response.json() throws
LoginTokenResponse(c, data, thrown) ==
  /\ call[c].pc = "tokenRequest"
  /\ LET frame == [call[c] EXCEPT !.data = data]
         branch == loginBranch(data)
     IN IF thrown
          THEN /\ LoginReturn([call[c] EXCEPT !.thrown = "token"], CaughtResult)
               /\ call' = Leave(c)
        ELSE IF branch = "workflow"
          THEN /\ call' = [call EXCEPT ![c] =
                    [frame EXCEPT !.pc = "pathfinder", !.deviceToken = None]]
               /\ sent' = Request("pathfinder", call[c].user,
                                  call[c].deviceToken, None)
               /\ ret' = NoRet
        ELSE IF branch = "mfa"
          THEN /\ LoginReturn(frame, MfaResult(data))
               /\ call' = Leave(c)
        ELSE IF branch = "error"
          THEN /\ LoginReturn(frame, ErrorResult(data))
               /\ call' = Leave(c)
        ELSE IF branch = "success"
          THEN /\ call' = [call EXCEPT ![c] =
                    [frame EXCEPT !.pc = "accounts", !.deviceToken = None,
                                  !.respondedAt = now,
                                  !.session = newSession(data, now)]]
               /\ sent' = Request("accounts", call[c].user, None, None)
               /\ ret' = NoRet
          ELSE /\ LoginReturn(frame, UnexpectedResult)
               /\ call' = Leave(c)
  /\ UNCHANGED <<deviceTokenStore, sessionStore, now, issued, polled, dialog>>

\* variant: a workflow that cannot be started drops the stored session
LoginPathfinderResponseDisconnects(c, outcome) ==
  /\ call[c].pc = "pathfinder"
  /\ IF outcome \in InquiryIds
       THEN /\ call' = [call EXCEPT ![c].pc = "inquiry",
                                    ![c].inquiry = outcome]
            /\ sent' = [Request("inquiry", call[c].user, None, None)
                          EXCEPT !.inquiry = outcome]
            /\ ret' = NoRet
            /\ UNCHANGED sessionStore
       ELSE /\ LoginReturn([call[c] EXCEPT !.thrown =
                              IF outcome = "throw" THEN "pathfinder" ELSE None],
                           PathfinderFallbackResult)
            /\ call' = Leave(c)
            /\ sessionStore' = clearSession(sessionStore, call[c].user)
  /\ UNCHANGED <<deviceTokenStore, now, issued, polled, dialog>>

\* the pathfinder/user_machine reply arrives: with an id (the outcome),
\* without ("noId"), or the request throws
LoginPathfinderResponse(c, outcome) ==
  /\ call[c].pc = "pathfinder"
  /\ IF outcome \in InquiryIds
       THEN /\ call' = [call EXCEPT ![c].pc = "inquiry",
                                    ![c].inquiry = outcome]
            /\ sent' = [Request("inquiry", call[c].user, None, None)
                          EXCEPT !.inquiry = outcome]
            /\ ret' = NoRet
       ELSE /\ LoginReturn([call[c] EXCEPT !.thrown =
                              IF outcome = "throw" THEN "pathfinder" ELSE None],
                           PathfinderFallbackResult)
            /\ call' = Leave(c)
  /\ UNCHANGED <<deviceTokenStore, sessionStore, now, issued, polled, dialog>>

\* variant: the first check is delayed too
pollDelayAlways(attempt) == delayMs

\* the delay pollPromptStatus waits before the check of iteration attempt
pollDelay(attempt) == IF attempt > 0 THEN delayMs ELSE 0

\* variant: the loop runs while attempt <= maxAttempts
pollContinuesInclusive(attempt) == attempt <= maxAttempts

\* the loop condition of pollPromptStatus after attempt++
pollContinues(attempt) == attempt < maxAttempts

\* the inquiry user_view arrives: with a sheriff challenge, without, or throws;
\* for a prompt challenge pollPromptStatus starts with its first check
LoginInquiryResponse(c, outcome, challengeId, challengeType) ==
  /\ call[c].pc = "inquiry"
  /\ IF outcome = "challenge" /\ challengeType = "prompt"
       THEN /\ call' = [call EXCEPT ![c].pc = "pollCheck",
                                    ![c].sheriff = challengeId,
                                    ![c].attempt = 0,
                                    ![c].delays = <<pollDelay(0)>>,
                                    ![c].resumed = challengeId \in polled]
            /\ sent' = Request("promptStatus", call[c].user, None, challengeId)
            /\ ret' = NoRet
            /\ polled' = polled \cup {challengeId}
     ELSE IF outcome = "challenge"
       THEN /\ LoginReturn([call[c] EXCEPT !.sheriff = challengeId],
                           SheriffMfaResult(challengeId, challengeType))
            /\ call' = Leave(c)
            /\ UNCHANGED polled
       ELSE /\ LoginReturn([call[c] EXCEPT !.thrown =
                              IF outcome = "throw" THEN "inquiry" ELSE None],
                           PathfinderFallbackResult)
            /\ call' = Leave(c)
            /\ UNCHANGED polled
  /\ UNCHANGED <<deviceTokenStore, sessionStore, now, issued, dialog>>

\* variant: a validated check returns shouldRetry without the "continue" post
LoginPollResponseNoContinue(c, outcome) ==
  /\ call[c].pc = "pollCheck"
  /\ IF outcome = "validated"
       THEN /\ LoginReturn([call[c] EXCEPT
                              !.attempt = @ + 1,
                              !.firstValidated = call[c].attempt + 1],
                           ShouldRetryResult)
            /\ call' = Leave(c)
     ELSE IF pollContinues(call[c].attempt + 1)
       THEN /\ call' = [call EXCEPT ![c].pc = "pollSleep",
                                    ![c].attempt = @ + 1,
                                    ![c].pollError =
                                      @ \/ outcome \in {"non2xx", "throw"}]
            /\ sent' = NoSent
            /\ ret' = NoRet
       ELSE /\ LoginReturn([call[c] EXCEPT
                              !.attempt = @ + 1,
                              !.pollError = @ \/ outcome \in {"non2xx", "throw"}],
                           StillPendingResult(call[c].sheriff))
            /\ call' = Leave(c)
  /\ UNCHANGED <<deviceTokenStore, sessionStore, now, issued, polled, dialog>>

\* one status check of pollPromptStatus completes
LoginPollResponse(c, outcome) ==
  /\ call[c].pc = "pollCheck"
  /\ IF outcome = "validated"
       THEN \* return { validated: true }; login posts "continue"
            /\ call' = [call EXCEPT ![c].pc = "continue",
                                    ![c].attempt = @ + 1,
                                    ![c].firstValidated = call[c].attempt + 1]
            /\ sent' = [Request("continue", call[c].user, None, None)
                          EXCEPT !.inquiry = call[c].inquiry]
            /\ ret' = NoRet
     ELSE IF pollContinues(call[c].attempt + 1)
       THEN \* next iteration: setTimeout(delayMs)
            /\ call' = [call EXCEPT ![c].pc = "pollSleep",
                                    ![c].attempt = @ + 1,
                                    ![c].pollError =
                                      @ \/ outcome \in {"non2xx", "throw"}]
            /\ sent' = NoSent
            /\ ret' = NoRet
       ELSE \* return { validated: false }
            /\ LoginReturn([call[c] EXCEPT
                              !.attempt = @ + 1,
                              !.pollError = @ \/ outcome \in {"non2xx", "throw"}],
                           StillPendingResult(call[c].sheriff))
            /\ call' = Leave(c)
  /\ UNCHANGED <<deviceTokenStore, sessionStore, now, issued, polled, dialog>>

\* the timer of pollPromptStatus fires: the next status check is sent
LoginPollWake(c) ==
  /\ call[c].pc = "pollSleep"
  /\ call' = [call EXCEPT ![c].pc = "pollCheck",
                          ![c].delays = Append(@, pollDelay(call[c].attempt))]
  /\ sent' = Request("promptStatus", call[c].user, None, call[c].sheriff)
  /\ ret' = NoRet
  /\ UNCHANGED <<deviceTokenStore, sessionStore, now, issued, polled, dialog>>

\* variant: the validated outcome drops the device token of the user
LoginContinueResponseClears(c) ==
  /\ call[c].pc = "continue"
  /\ LoginReturn(call[c], ShouldRetryResult)
  /\ call' = Leave(c)
  /\ deviceTokenStore' = clearDeviceToken(deviceTokenStore, call[c].user)
  /\ issued' = [issued EXCEPT ![call[c].user] = Cleared(@)]
  /\ UNCHANGED <<sessionStore, now, polled, dialog>>

\* the "continue" post completes or throws
LoginContinueResponse(c) ==
  /\ call[c].pc = "continue"
  /\ LoginReturn(call[c], ShouldRetryResult)
  /\ call' = Leave(c)
  /\ UNCHANGED <<deviceTokenStore, sessionStore, now, issued, polled, dialog>>

\* the accounts reply arrives (with or without a first account) or apiRequest
\* throws; setSession is called
LoginAccountsResponse(c, outcome) ==
  /\ call[c].pc = "accounts"
  /\ call' = [call EXCEPT ![c].pc = "setSession",
                          ![c].accounts = outcome,
                          ![c].session.accountId =
                            IF outcome = "found" THEN "account_number" ELSE None]
  /\ sent' = NoSent
  /\ ret' = NoRet
  /\ UNCHANGED <<deviceTokenStore, sessionStore, now, issued, polled, dialog>>

\* the login in slot c returns success: the logins of the user that were in
\* flight when it started, and still are, are from now on stale
MarkStale(c, userId) ==
  [d \in Calls |->
     IF d = c THEN Idle
     ELSE IF d \in call[c].elders
       THEN [call[d] EXCEPT !.stale = TRUE, !.elders = @ \ {c}]
       ELSE [call[d] EXCEPT !.elders = @ \ {c}]]

\* variant: an exception of setSession leaves login uncaught
LoginSetSessionThrows(c, stored) ==
  /\ call[c].pc = "setSession"
  /\ IF stored
       THEN /\ sessionStore' =
                 setSession(sessionStore, call[c].user, call[c].session)
            /\ deviceTokenStore' =
                 clearDeviceToken(deviceTokenStore, call[c].user)
            /\ issued' = [issued EXCEPT ![call[c].user] = Cleared(@)]
            /\ LoginReturn(call[c], SuccessResult)
            /\ call' = MarkStale(c, call[c].user)
       ELSE /\ ret' = [op |-> "loginThrow", user |-> call[c].user,
                       obs |-> [call[c] EXCEPT !.thrown = "store"]]
            /\ sent' = NoSent
            /\ call' = Leave(c)
            /\ UNCHANGED <<deviceTokenStore, sessionStore, issued>>
  /\ UNCHANGED <<now, polled, dialog>>

\* setSession completes (the session is stored) or throws
LoginSetSession(c, stored) ==
  /\ call[c].pc = "setSession"
  /\ IF stored
       THEN /\ sessionStore' =
                 setSession(sessionStore, call[c].user, call[c].session)
            /\ deviceTokenStore' =
                 clearDeviceToken(deviceTokenStore, call[c].user)
            /\ issued' = [issued EXCEPT ![call[c].user] = Cleared(@)]
            /\ LoginReturn(call[c], SuccessResult)
            /\ call' = MarkStale(c, call[c].user)
       ELSE /\ LoginReturn([call[c] EXCEPT !.thrown = "store"], CaughtResult)
            /\ call' = Leave(c)
            /\ UNCHANGED <<deviceTokenStore, sessionStore, issued>>
  /\ UNCHANGED <<now, polled, dialog>>

\* The enclosing request of the login in slot c is cancelled (the client
\* disconnects, the platform times out).  login and pollPromptStatus take no
\* AbortSignal and the route registers no abort handler: no code runs.
Cancel(c) ==
  /\ call[c].pc \in LoginPcs
  /\ call[c].cancelled = None
  /\ call' = [call EXCEPT ![c].cancelled = call[c].pc]
  /\ sent' = NoSent
  /\ ret' = NoRet
  /\ UNCHANGED <<deviceTokenStore, sessionStore, now, issued, polled, dialog>>

(* ------------------------------- logout -------------------------------- *)

\* entry of logout: getSession, then the revoke request if there is a session
LogoutStart(c, userId) ==
  /\ call[c].pc = "idle"
  /\ LET session == getSession(sessionStore, userId, now)
     IN /\ sessionStore' = getSessionStore(sessionStore, userId, now)
        /\ IF session # {}
             THEN /\ call' = [call EXCEPT ![c] =
                       [Idle EXCEPT !.pc = "revoke", !.user = userId]]
                  /\ sent' = Request("revoke", userId, None, None)
             ELSE /\ call' = [call EXCEPT ![c] =
                       [Idle EXCEPT !.pc = "clearSession", !.user = userId]]
                  /\ sent' = NoSent
  /\ ret' = NoRet
  /\ UNCHANGED <<deviceTokenStore, now, issued, polled, dialog>>

\* variant: a revoke request that throws ends logout at once
LogoutRevokeResponseAborts(c, outcome) ==
  /\ call[c].pc = "revoke"
  /\ IF outcome = "throw"
       THEN /\ ret' = [op |-> "logout", user |-> call[c].user, result |-> TRUE,
                       obs |-> [call[c] EXCEPT !.revoke = outcome],
                       held |-> IF Has(deviceTokenStore, call[c].user)
                                  THEN {deviceTokenStore[call[c].user]} ELSE {}]
            /\ call' = Leave(c)
       ELSE /\ call' = [call EXCEPT ![c].pc = "clearSession",
                                    ![c].revoke = outcome]
            /\ ret' = NoRet
  /\ sent' = NoSent
  /\ UNCHANGED <<deviceTokenStore, sessionStore, now, issued, polled, dialog>>

\* the revoke request completes (any status) or throws
LogoutRevokeResponse(c, outcome) ==
  /\ call[c].pc = "revoke"
  /\ call' = [call EXCEPT ![c].pc = "clearSession", ![c].revoke = outcome]
  /\ sent' = NoSent
  /\ ret' = NoRet
  /\ UNCHANGED <<deviceTokenStore, sessionStore, now, issued, polled, dialog>>

\* clearSession completes, the device token is cleared, logout returns true
LogoutClearSession(c) ==
  /\ call[c].pc = "clearSession"
  /\ sessionStore' = clearSession(sessionStore, call[c].user)
  /\ deviceTokenStore' = clearDeviceToken(deviceTokenStore, call[c].user)
  /\ issued' = [issued EXCEPT ![call[c].user] = Cleared(@)]
  /\ ret' = [op |-> "logout", user |-> call[c].user, result |-> TRUE,
             obs |-> call[c],
             held |-> IF Has(deviceTokenStore, call[c].user)
                        THEN {deviceTokenStore[call[c].user]} ELSE {}]
  /\ sent' = NoSent
  /\ call' = [d \in Calls |->
               IF d \in LoginsInFlight(call[c].user)
                 THEN [Leave(c)[d] EXCEPT !.loggedOut = TRUE]
                 ELSE Leave(c)[d]]
  /\ UNCHANGED <<now, polled, dialog>>

(* ----------------------------- broker data ----------------------------- *)

\* a field that the upstream record does not carry
Absent == -1

\* pages of a paginated reply
MaxPages == 2
\* cost-basis lots of a crypto holding
MaxLots == 2

\* the paginated replies over records: up to MaxPages pages, every page but
\* the last with a next link; a page is empty, has one record or is pair
Paged(records, pair) ==
  LET page == {<<>>, pair} \cup {<<r>> : r \in records}
  IN UNION {[1..n -> page] : n \in 1..MaxPages}

\* the concatenation of all pages
RECURSIVE Flatten(_)
Flatten(pages) ==
  IF pages = <<>> THEN <<>> ELSE Head(pages) \o Flatten(Tail(pages))

\* seq[1] + ... + seq[n], accumulated in this order
RECURSIVE SumValues(_, _)
SumValues(seq, n) == IF n = 0 THEN 0 ELSE SumValues(seq, n - 1) + seq[n]

\* while (nextUrl) { all = [...all, ...page.results]; nextUrl = page.next }
RECURSIVE followNext(_, _, _)
followNext(pages, i, all) ==
  IF i < Len(pages) THEN followNext(pages, i + 1, all \o pages[i])
                    ELSE all \o pages[i]

\* positions.results of the single request that getPositions and
\* getOptionsPositions make
firstPage(pages) == pages[1]

\* the records that the loops do not skip (quantity === 0 -> continue)
Nonzero(results) == SelectSeq(results, LAMBDA r : r.quantity # 0)

\* a stock position with its instrument and its quote; quote is FALSE when
\* the quote request fails
StockPosition(quantity, extended, quote) ==
  [quantity |-> quantity, average_buy_price |-> 4, last_trade_price |-> 10,
   last_extended_hours_trade_price |-> extended, previous_close |-> 9,
   quote |-> quote,
   instrument |-> TRUE, symbol |-> "SYM", simple_name |-> "Name"]

\* the position when its instrument request fails: no quote is requested
NoInstrument(position) ==
  [position EXCEPT !.instrument = FALSE, !.quote = FALSE]

StockPages ==
  Paged({StockPosition(2, Absent, TRUE), StockPosition(2, 11, TRUE),
         StockPosition(1, Absent, FALSE), StockPosition(0, Absent, TRUE),
         NoInstrument(StockPosition(1, Absent, TRUE))},
        <<StockPosition(2, Absent, TRUE), StockPosition(1, Absent, FALSE),
          NoInstrument(StockPosition(1, Absent, TRUE))>>)

\* the body of the loop of getPositions
formatPosition(position) ==
  LET quantity == position.quantity
      symbol == IF position.instrument THEN position.symbol ELSE "UNKNOWN"
      name == IF position.instrument THEN position.simple_name ELSE "Unknown"
      currentPrice == IF position.instrument /\ position.quote
                        THEN position.last_trade_price ELSE 0
      average == position.average_buy_price
      marketValue == quantity * currentPrice
      totalCost == quantity * average
  IN [symbol |-> symbol, name |-> name,
      quantity |-> quantity, averageCost |-> average,
      currentPrice |-> currentPrice, marketValue |-> marketValue,
      totalGainLoss |-> marketValue - totalCost]

\* variant: a position whose instrument or quote cannot be fetched is left out
formattedPositionsSkipFailed(results) ==
  LET kept == SelectSeq(Nonzero(results),
                        LAMBDA r : r.instrument /\ r.quote)
  IN [i \in 1..Len(kept) |-> formatPosition(kept[i])]

formattedPositions(results) ==
  LET kept == Nonzero(results)
  IN [i \in 1..Len(kept) |-> formatPosition(kept[i])]

\* what one position adds to totalStockValue in getPortfolio
positionValue(position) ==
  LET extendedHoursPrice == position.last_extended_hours_trade_price
      currentPrice == IF extendedHoursPrice # Absent
                        THEN extendedHoursPrice
                        ELSE position.last_trade_price
  IN IF position.quantity = 0 \/ ~position.instrument \/ ~position.quote
       THEN 0
       ELSE position.quantity * currentPrice

totalStockValue(allPositions) ==
  SumValues([i \in 1..Len(allPositions) |-> positionValue(allPositions[i])],
            Len(allPositions))

\* totalStockPreviousClose of getPortfolio: quantity * previousClose of the
\* positions whose instrument and quote were fetched
totalStockPreviousClose(allPositions) ==
  SumValues([i \in 1..Len(allPositions) |->
               IF positionValue(allPositions[i]) = 0 THEN 0
               ELSE allPositions[i].quantity * allPositions[i].previous_close],
            Len(allPositions))

\* a cost-basis lot and a crypto holding; pair is FALSE when the trading pair
\* or its quote cannot be fetched
Lot(cost, quantity) == [direct_cost_basis |-> cost, direct_quantity |-> quantity]

CryptoHolding(quantity, cost_bases, pair) ==
  [quantity |-> quantity, cost_bases |-> cost_bases, mark_price |-> 7,
   pair |-> pair]

CryptoRecords ==
  {CryptoHolding(3, lots, pair) :
     lots \in UNION {[1..n -> {Lot(100, 2), Lot(50, 1), Lot(30, -3)}] :
                       n \in 0..MaxLots},
     pair \in BOOLEAN}
  \cup {CryptoHolding(0, <<Lot(100, 2)>>, TRUE)}

CryptoHoldingLists ==
  {<<>>} \cup {<<h>> : h \in CryptoRecords}
  \cup {<<h, CryptoHolding(3, <<Lot(50, 1)>>, TRUE)>> : h \in CryptoRecords}

\* the number n / d
Quotient(n, d) == [num |-> n, den |-> d]

\* variant: the division is guarded against zero only
averageCostNonzero(totalCost, totalQuantity) ==
  IF totalQuantity # 0 THEN Quotient(totalCost, totalQuantity)
                       ELSE Quotient(0, 1)

\* totalQuantity > 0 ? totalCost / totalQuantity : 0
averageCost(totalCost, totalQuantity) ==
  IF totalQuantity > 0 THEN Quotient(totalCost, totalQuantity)
                       ELSE Quotient(0, 1)

\* the body of the loop of getCryptoHoldings
formatHolding(holding) ==
  LET quantity == holding.quantity
      lots == holding.cost_bases
      totalCost ==
        SumValues([i \in 1..Len(lots) |-> lots[i].direct_cost_basis], Len(lots))
      totalQuantity ==
        SumValues([i \in 1..Len(lots) |-> lots[i].direct_quantity], Len(lots))
      currentPrice == IF holding.pair THEN holding.mark_price ELSE 0
      marketValue == quantity * currentPrice
  IN [quantity |-> quantity,
      averageCost |-> averageCost(totalCost, totalQuantity),
      currentPrice |-> currentPrice, marketValue |-> marketValue,
      totalGainLoss |-> marketValue - totalCost]

formattedHoldings(results) ==
  LET kept == Nonzero(results)
  IN [i \in 1..Len(kept) |-> formatHolding(kept[i])]

\* an option position; market is FALSE when the instrument or its market
\* data cannot be fetched
OptionPosition(quantity, market, multiplier, type) ==
  [quantity |-> quantity, average_price |-> 2, mark_price |-> 3,
   market |-> market, trade_value_multiplier |-> multiplier, type |-> type]

OptionPages ==
  Paged({OptionPosition(1, TRUE, multiplier, type) :
           multiplier \in {Absent, 0, 100, 10}, type \in {"long", "short"}}
        \cup {OptionPosition(1, FALSE, 100, "short"),
              OptionPosition(0, TRUE, 100, "long")},
        <<OptionPosition(1, TRUE, 100, "long"), OptionPosition(1, TRUE, 10, "short")>>)

\* Number.parseFloat(position.trade_value_multiplier) || 100
multiplierOf(position) ==
  IF position.trade_value_multiplier \in {Absent, 0}
    THEN 100
    ELSE position.trade_value_multiplier

\* variant: the gain of a short position is computed as that of a long one
formatOptionLongOnly(position) ==
  LET quantity == position.quantity
      currentPrice == IF position.market THEN position.mark_price ELSE 0
      average == position.average_price
      multiplier == multiplierOf(position)
      marketValue == quantity * currentPrice * multiplier
      totalCost == quantity * average * multiplier
  IN [quantity |-> quantity, averageCost |-> average,
      currentPrice |-> currentPrice, marketValue |-> marketValue,
      totalGainLoss |-> marketValue - totalCost,
      positionType |-> position.type]

\* the body of the loop of getOptionsPositions
formatOption(position) ==
  LET quantity == position.quantity
      currentPrice == IF position.market THEN position.mark_price ELSE 0
      average == position.average_price
      multiplier == multiplierOf(position)
      marketValue == quantity * currentPrice * multiplier
      totalCost == quantity * average * multiplier
  IN [quantity |-> quantity, averageCost |-> average,
      currentPrice |-> currentPrice, marketValue |-> marketValue,
      totalGainLoss |-> IF position.type = "long"
                          THEN marketValue - totalCost
                          ELSE totalCost - marketValue,
      positionType |-> position.type]

formattedOptions(results) ==
  LET kept == Nonzero(results)
  IN [i \in 1..Len(kept) |-> formatOption(kept[i])]

\* an option order, created today or on an earlier day (Eastern time)
\* created_at.split("T")[0] of an order and todayStr are dates, compared as
\* strings of the form YYYY-MM-DD: the dates are numbered, todayStr is day 1
todayStr == 1

Order(id, created) == [id |-> id, created_at |-> created]

\* the paginated replies to the order request: a page is empty or has one or
\* two orders, of yesterday, today or tomorrow, in any order
OrderPages ==
  LET records == {Order("o0", 0), Order("o1", 1), Order("o2", 2)}
      page == {<<>>} \cup {<<r>> : r \in records}
                \cup {<<r, q>> : <<r, q>> \in
                                    {pair \in records \X records :
                                       pair[1] # pair[2]}}
  IN UNION {[1..n -> page] : n \in 1..MaxPages}

\* the pagination loop of getTodayOptionsOrders: it stops after a page whose
\* last order is older than today
RECURSIVE fetchOrdersStopsAtToday(_, _, _)
\* variant: the loop stops after a page whose last order is not newer than
\* today
fetchOrdersStopsAtToday(pages, i, allOrders) ==
  LET orders == pages[i]
      older == orders # <<>> /\ orders[Len(orders)].created_at <= todayStr
  IN IF i < Len(pages) /\ ~older
       THEN fetchOrdersStopsAtToday(pages, i + 1, allOrders \o orders)
       ELSE allOrders \o orders

RECURSIVE fetchOrders(_, _, _)
fetchOrders(pages, i, allOrders) ==
  LET orders == pages[i]
      older == orders # <<>> /\ orders[Len(orders)].created_at < todayStr
  IN IF i < Len(pages) /\ ~older
       THEN fetchOrders(pages, i + 1, allOrders \o orders)
       ELSE allOrders \o orders

todayOrders(allOrders) ==
  SelectSeq(allOrders, LAMBDA order : order.created_at = todayStr)

\* the sum of marketValue over formatted records
totalMarketValue(formatted) ==
  SumValues([i \in 1..Len(formatted) |-> formatted[i].marketValue],
            Len(formatted))

\* variant: the stocks-only previous close is looked at first
unifiedPortfolioStocksFirst(account) ==
  LET totalEquity == account.total_equity
      totalPreviousClose ==
        IF account.portfolio_previous_close # Absent
          THEN account.portfolio_previous_close
        ELSE IF account.previous_close # Absent
          THEN account.previous_close
        ELSE account.total_previous_close
      orZero(field) == IF field # Absent THEN field ELSE 0
      dayChange == totalEquity - totalPreviousClose
  IN [path |-> "unified", totalValue |-> totalEquity,
      equity |-> account.portfolio_equity, cash |-> account.uninvested_cash,
      buyingPower |-> account.account_buying_power,
      dayChange |-> dayChange,
      dayChangePercent |->
        IF totalPreviousClose > 0
          THEN [num |-> dayChange * 100, den |-> totalPreviousClose]
          ELSE [num |-> 0, den |-> 1],
      cryptoBuyingPower |-> orZero(account.crypto_buying_power),
      optionsBuyingPower |-> orZero(account.options_buying_power),
      stocksEquity |-> orZero(account.equities),
      cryptoEquity |-> orZero(account.crypto)]

\* the FormattedPortfolio of the unified account. A field the reply lacks (or
\* has as an empty string) is Absent; a || b || c is the first of them that
\* is there, x || "0" is 0 for a field that is not; equities and crypto stand
\* for equities?.equity and crypto?.equity; dayChangePercent is the quotient
\* num / den
unifiedPortfolio(account) ==
  LET totalEquity == account.total_equity
      totalPreviousClose ==
        IF account.total_previous_close # Absent
          THEN account.total_previous_close
        ELSE IF account.previous_close # Absent
          THEN account.previous_close
        ELSE account.portfolio_previous_close
      orZero(field) == IF field # Absent THEN field ELSE 0
      dayChange == totalEquity - totalPreviousClose
  IN [path |-> "unified", totalValue |-> totalEquity,
      equity |-> account.portfolio_equity, cash |-> account.uninvested_cash,
      buyingPower |-> account.account_buying_power,
      dayChange |-> dayChange,
      dayChangePercent |->
        IF totalPreviousClose > 0
          THEN [num |-> dayChange * 100, den |-> totalPreviousClose]
          ELSE [num |-> 0, den |-> 1],
      cryptoBuyingPower |-> orZero(account.crypto_buying_power),
      optionsBuyingPower |-> orZero(account.options_buying_power),
      stocksEquity |-> orZero(account.equities),
      cryptoEquity |-> orZero(account.crypto)]

\* variant: the crypto value enters the previous-close baseline too
fallbackPortfolioCryptoBaseline(cash, stockValue, stockPreviousClose, cryptoValue, optionsValue) ==
  LET marketValue == stockValue + cryptoValue + optionsValue
      equity == cash + marketValue
      equityPreviousClose == cash + stockPreviousClose + cryptoValue
      dayChange == equity - equityPreviousClose
  IN [path |-> "fallback", totalValue |-> equity, equity |-> equity,
      cash |-> cash, dayChange |-> dayChange,
      dayChangePercent |->
        IF equityPreviousClose > 0
          THEN [num |-> dayChange * 100, den |-> equityPreviousClose]
          ELSE [num |-> 0, den |-> 1],
      stocksEquity |-> stockValue, cryptoEquity |-> cryptoValue]

\* the FormattedPortfolio of the fallback path; dayChangePercent is the
\* quotient num / den
fallbackPortfolio(cash, stockValue, stockPreviousClose, cryptoValue, optionsValue) ==
  LET marketValue == stockValue + cryptoValue + optionsValue
      equity == cash + marketValue
      equityPreviousClose == cash + stockPreviousClose
      dayChange == equity - equityPreviousClose
  IN [path |-> "fallback", totalValue |-> equity, equity |-> equity,
      cash |-> cash, dayChange |-> dayChange,
      dayChangePercent |->
        IF equityPreviousClose > 0
          THEN [num |-> dayChange * 100, den |-> equityPreviousClose]
          ELSE [num |-> 0, den |-> 1],
      stocksEquity |-> stockValue, cryptoEquity |-> cryptoValue]

(* --------------------------- data operations --------------------------- *)

DataNames == {"getAccount", "getPortfolio", "getPositions",
              "getCryptoHoldings", "getOptionsPositions",
              "getTodayOptionsOrders"}

DataPcs == {"account", "positions", "holdings", "optionPositions",
            "optionOrders", "phoenixSession", "unified", "accountSession",
            "fallbackAccount", "cryptoSession", "crypto", "optionsSession",
            "portfolioOptions"}

NotConnected == "Not connected to Robinhood. Please connect first."
ApiError == "Robinhood API error"

\* what a data operation gives its caller: a value or an exception
Value(v) ==
  [kind |-> "value", error |-> None, needsConnection |-> FALSE, value |-> v]
Thrown(message) ==
  [kind |-> "throw", error |-> message, needsConnection |-> FALSE,
   value |-> <<>>]

\* what a tool gives the assistant
ToolError(message) ==
  [kind |-> "error", error |-> message, needsConnection |-> FALSE,
   value |-> <<>>]
NeedsConnection ==
  [kind |-> "error",
   error |-> "Not connected to Robinhood. Please connect first using the robinhoodConnect tool.",
   needsConnection |-> TRUE, value |-> <<>>]

\* the try / catch of a tool's execute around the client call; value is the
\* client's value, which the tool then formats for display
toolResult(name, result) ==
  IF result.kind = "throw" THEN ToolError(result.error)
  ELSE IF name = "getAccount" /\ result.value = {}
    THEN ToolError("Could not fetch account information")
    ELSE result

\* the call in slot c ends with result; read is the stored session that the
\* check at the entry of the operation found, when this check ends the call
DataReturn(c, obs, result, first, read) ==
  /\ ret' = [op |-> "data", name |-> obs.name, user |-> obs.user,
             result |-> IF obs.tool THEN toolResult(obs.name, result)
                                    ELSE result,
             obs |-> obs, first |-> first, read |-> read, at |-> now]
  /\ call' = Leave(c)

Stored(userId) ==
  IF Has(sessionStore, userId) THEN {sessionStore[userId]} ELSE {}

\* execute of a tool: getConnectionStatus, then the client call
ToolStart(c, userId, name) ==
  /\ call[c].pc = "idle"
  /\ LET status == getConnectionStatus(sessionStore, userId, now)
         frame == [Idle EXCEPT !.user = userId, !.name = name, !.tool = TRUE]
     IN /\ sessionStore' = getSessionStore(sessionStore, userId, now)
        /\ IF ~status.connected
             THEN /\ ret' = [op |-> "data", name |-> name, user |-> userId,
                             result |-> NeedsConnection, obs |-> frame,
                             first |-> TRUE, read |-> Stored(userId),
                             at |-> now]
                  /\ call' = call
             ELSE /\ call' = [call EXCEPT ![c] = [frame EXCEPT !.pc = "toolCall"]]
                  /\ ret' = NoRet
  /\ sent' = NoSent
  /\ UNCHANGED <<deviceTokenStore, now, issued, polled, dialog>>

\* the await that follows the session check of an operation
firstPc(name) ==
  CASE name = "getAccount" -> "account"
    [] name = "getPortfolio" -> "phoenixSession"
    [] name = "getPositions" -> "positions"
    [] name = "getCryptoHoldings" -> "holdings"
    [] name = "getOptionsPositions" -> "optionPositions"
    [] name = "getTodayOptionsOrders" -> "optionOrders"

\* the request sent after the session check, if the operation sends one
firstRequest(name, userId) ==
  IF name = "getPortfolio" THEN NoSent
  ELSE Request(IF name = "getAccount" THEN "accounts" ELSE firstPc(name),
               userId, None, None)

\* variant: the request is sent whether or not there is a session
DataStartUnchecked(c, userId, name) ==
  /\ \/ call[c].pc = "idle"
     \/ call[c].pc = "toolCall" /\ call[c].user = userId /\ call[c].name = name
  /\ LET session == getSession(sessionStore, userId, now)
         frame == [call[c] EXCEPT !.user = userId, !.name = name]
     IN /\ sessionStore' = getSessionStore(sessionStore, userId, now)
        /\ call' = [call EXCEPT ![c] =
               [frame EXCEPT !.pc = firstPc(name),
                             !.session = IF session = {} THEN NoSession
                                         ELSE CHOOSE x \in session : TRUE]]
        /\ sent' = firstRequest(name, userId)
        /\ ret' = NoRet
  /\ UNCHANGED <<deviceTokenStore, now, issued, polled, dialog>>

\* entry of getAccount, getPortfolio, getPositions, getCryptoHoldings,
\* getOptionsPositions and getTodayOptionsOrders: getSession, then throw or
\* go on to the first request
DataStart(c, userId, name) ==
  /\ \/ call[c].pc = "idle"
     \/ call[c].pc = "toolCall" /\ call[c].user = userId /\ call[c].name = name
  /\ LET session == getSession(sessionStore, userId, now)
         frame == [call[c] EXCEPT !.user = userId, !.name = name]
     IN /\ sessionStore' = getSessionStore(sessionStore, userId, now)
        /\ IF session = {}
             THEN /\ DataReturn(c, frame, Thrown(NotConnected), TRUE,
                                Stored(userId))
                  /\ sent' = NoSent
             ELSE /\ call' = [call EXCEPT ![c] =
                       [frame EXCEPT !.pc = firstPc(name),
                                     !.session = CHOOSE x \in session : TRUE]]
                  /\ sent' = firstRequest(name, userId)
                  /\ ret' = NoRet
  /\ UNCHANGED <<deviceTokenStore, now, issued, polled, dialog>>

\* getAccount: the accounts reply arrives with or without a first account, or
\* apiRequest throws
AccountResponse(c, outcome) ==
  /\ call[c].pc = "account"
  /\ DataReturn(c, call[c],
                IF outcome = "throw" THEN Thrown(ApiError)
                ELSE IF outcome = "found" THEN Value({"account"})
                ELSE Value({}),
                FALSE, {})
  /\ sent' = NoSent
  /\ UNCHANGED <<deviceTokenStore, sessionStore, now, issued, polled, dialog>>

\* getPositions: the reply of its one positions request arrives, then the
\* instrument and the quote of every position
PositionsResponse(c, pages, thrown) ==
  /\ call[c].pc = "positions"
  /\ IF thrown
       THEN DataReturn(c, call[c], Thrown(ApiError), FALSE, {})
       ELSE DataReturn(c, [call[c] EXCEPT !.world.stocks = pages,
                                          !.seen = firstPage(pages)],
                       Value(formattedPositions(firstPage(pages))), FALSE, {})
  /\ sent' = NoSent
  /\ UNCHANGED <<deviceTokenStore, sessionStore, now, issued, polled, dialog>>

\* getCryptoHoldings: the holdings reply arrives, then the pair and the quote
\* of every holding
CryptoResponse(c, holdings, thrown) ==
  /\ call[c].pc = "holdings"
  /\ IF thrown
       THEN DataReturn(c, call[c], Thrown(ApiError), FALSE, {})
       ELSE DataReturn(c, [call[c] EXCEPT !.world.holdings = holdings,
                                          !.seen = holdings],
                       Value(formattedHoldings(holdings)), FALSE, {})
  /\ sent' = NoSent
  /\ UNCHANGED <<deviceTokenStore, sessionStore, now, issued, polled, dialog>>

\* getOptionsPositions: the reply of its one positions request arrives, then
\* the instrument and the market data of every position
OptionsResponse(c, pages, thrown) ==
  /\ call[c].pc = "optionPositions"
  /\ IF thrown
       THEN DataReturn(c, call[c], Thrown(ApiError), FALSE, {})
       ELSE DataReturn(c, [call[c] EXCEPT !.world.options = pages,
                                          !.seen = firstPage(pages)],
                       Value(formattedOptions(firstPage(pages))), FALSE, {})
  /\ sent' = NoSent
  /\ UNCHANGED <<deviceTokenStore, sessionStore, now, issued, polled, dialog>>

\* getTodayOptionsOrders: the pages of orders arrive
OrdersResponse(c, pages, thrown) ==
  /\ call[c].pc = "optionOrders"
  /\ IF thrown
       THEN DataReturn(c, call[c], Thrown(ApiError), FALSE, {})
       ELSE DataReturn(c, [call[c] EXCEPT !.world.orders = pages,
                                          !.seen = fetchOrders(pages, 1, <<>>)],
                       Value(todayOrders(fetchOrders(pages, 1, <<>>))),
                       FALSE, {})
  /\ sent' = NoSent
  /\ UNCHANGED <<deviceTokenStore, sessionStore, now, issued, polled, dialog>>

\* getPortfolio -> getPhoenixAccount: getSession, then the unified request
PortfolioPhoenixSession(c) ==
  /\ call[c].pc = "phoenixSession"
  /\ sessionStore' = getSessionStore(sessionStore, call[c].user, now)
  /\ IF getSession(sessionStore, call[c].user, now) = {}
       THEN /\ DataReturn(c, call[c], Thrown(NotConnected), FALSE, {})
            /\ sent' = NoSent
       ELSE /\ call' = [call EXCEPT ![c].pc = "unified"]
            /\ sent' = Request("unified", call[c].user, None, None)
            /\ ret' = NoRet
  /\ UNCHANGED <<deviceTokenStore, now, issued, polled, dialog>>

\* variant: a failure of the unified request ends getPortfolio
PortfolioUnifiedResponseThrows(c, outcome, account) ==
  /\ call[c].pc = "unified"
  /\ IF outcome = "ok"
       THEN DataReturn(c, [call[c] EXCEPT !.unified = outcome,
                                          !.world.account = account],
                       Value(unifiedPortfolio(account)), FALSE, {})
       ELSE DataReturn(c, [call[c] EXCEPT !.unified = outcome],
                       Thrown(ApiError), FALSE, {})
  /\ sent' = NoSent
  /\ UNCHANGED <<deviceTokenStore, sessionStore, now, issued, polled, dialog>>

\* the unified account arrives, or the request is answered non-2xx or throws:
\* getPhoenixAccount returns null and getPortfolio calls getAccount
PortfolioUnifiedResponse(c, outcome, account) ==
  /\ call[c].pc = "unified"
  /\ IF outcome = "ok"
       THEN DataReturn(c, [call[c] EXCEPT !.unified = outcome,
                                          !.world.account = account],
                       Value(unifiedPortfolio(account)), FALSE, {})
       ELSE /\ call' = [call EXCEPT ![c].pc = "accountSession",
                                    ![c].unified = outcome]
            /\ ret' = NoRet
  /\ sent' = NoSent
  /\ UNCHANGED <<deviceTokenStore, sessionStore, now, issued, polled, dialog>>

\* getPortfolio -> getAccount: getSession, then the accounts request
PortfolioAccountSession(c) ==
  /\ call[c].pc = "accountSession"
  /\ sessionStore' = getSessionStore(sessionStore, call[c].user, now)
  /\ IF getSession(sessionStore, call[c].user, now) = {}
       THEN /\ DataReturn(c, call[c], Thrown(NotConnected), FALSE, {})
            /\ sent' = NoSent
       ELSE /\ call' = [call EXCEPT ![c].pc = "fallbackAccount"]
            /\ sent' = Request("accounts", call[c].user, None, None)
            /\ ret' = NoRet
  /\ UNCHANGED <<deviceTokenStore, now, issued, polled, dialog>>

\* the accounts reply arrives; with an account, the pages of positions are
\* fetched and every position's instrument and quote; then getPortfolio
\* calls getCryptoHoldings
PortfolioAccountResponse(c, outcome, cash, pages, thrown) ==
  /\ call[c].pc = "fallbackAccount"
  /\ IF outcome = "throw" \/ (outcome = "found" /\ thrown)
       THEN /\ DataReturn(c, call[c], Thrown(ApiError), FALSE, {})
            /\ sent' = NoSent
     ELSE IF outcome = "empty"
       THEN /\ DataReturn(c, call[c], Thrown("No account found"), FALSE, {})
            /\ sent' = NoSent
       ELSE /\ call' = [call EXCEPT
                 ![c].pc = "cryptoSession",
                 ![c].world.cash = cash,
                 ![c].world.stocks = pages,
                 ![c].seen = followNext(pages, 1, <<>>),
                 ![c].totalStockValue =
                   totalStockValue(followNext(pages, 1, <<>>)),
                 ![c].totalStockPreviousClose =
                   totalStockPreviousClose(followNext(pages, 1, <<>>))]
            /\ sent' = Request("positions", call[c].user, None, None)
            /\ ret' = NoRet
  /\ UNCHANGED <<deviceTokenStore, sessionStore, now, issued, polled, dialog>>

\* getPortfolio -> getCryptoHoldings: getSession, then the holdings request;
\* getPortfolio catches the exception and goes on to getOptionsPositions
PortfolioCryptoSession(c) ==
  /\ call[c].pc = "cryptoSession"
  /\ sessionStore' = getSessionStore(sessionStore, call[c].user, now)
  /\ IF getSession(sessionStore, call[c].user, now) = {}
       THEN /\ call' = [call EXCEPT ![c].pc = "optionsSession"]
            /\ sent' = NoSent
       ELSE /\ call' = [call EXCEPT ![c].pc = "crypto"]
            /\ sent' = Request("holdings", call[c].user, None, None)
  /\ ret' = NoRet
  /\ UNCHANGED <<deviceTokenStore, now, issued, polled, dialog>>

\* the holdings arrive, or getCryptoHoldings throws and getPortfolio goes on
PortfolioCryptoResponse(c, holdings, thrown) ==
  /\ call[c].pc = "crypto"
  /\ IF thrown
       THEN call' = [call EXCEPT ![c].pc = "optionsSession"]
       ELSE call' = [call EXCEPT
              ![c].pc = "optionsSession",
              ![c].world.holdings = holdings,
              ![c].world.holdingsOk = TRUE,
              ![c].totalCryptoValue =
                totalMarketValue(formattedHoldings(holdings))]
  /\ sent' = NoSent
  /\ ret' = NoRet
  /\ UNCHANGED <<deviceTokenStore, sessionStore, now, issued, polled, dialog>>

\* getPortfolio -> getOptionsPositions: getSession, then the positions
\* request; getPortfolio catches the exception and returns
PortfolioOptionsSession(c) ==
  /\ call[c].pc = "optionsSession"
  /\ sessionStore' = getSessionStore(sessionStore, call[c].user, now)
  /\ IF getSession(sessionStore, call[c].user, now) = {}
       THEN /\ DataReturn(c, call[c],
                   Value(fallbackPortfolio(call[c].world.cash,
                                           call[c].totalStockValue,
                                           call[c].totalStockPreviousClose,
                                           call[c].totalCryptoValue, 0)),
                   FALSE, {})
            /\ sent' = NoSent
       ELSE /\ call' = [call EXCEPT ![c].pc = "portfolioOptions"]
            /\ sent' = Request("optionPositions", call[c].user, None, None)
            /\ ret' = NoRet
  /\ UNCHANGED <<deviceTokenStore, now, issued, polled, dialog>>

\* the option positions arrive, or getOptionsPositions throws; getPortfolio
\* returns the fallback portfolio
PortfolioOptionsResponse(c, pages, thrown) ==
  /\ call[c].pc = "portfolioOptions"
  /\ IF thrown
       THEN DataReturn(c, call[c],
              Value(fallbackPortfolio(call[c].world.cash,
                                      call[c].totalStockValue,
                                      call[c].totalStockPreviousClose,
                                      call[c].totalCryptoValue, 0)),
              FALSE, {})
       ELSE DataReturn(c, [call[c] EXCEPT !.world.options = pages,
                                          !.world.optionsOk = TRUE],
              Value(fallbackPortfolio(
                      call[c].world.cash,
                      call[c].totalStockValue,
                      call[c].totalStockPreviousClose,
                      call[c].totalCryptoValue,
                      totalMarketValue(formattedOptions(firstPage(pages))))),
              FALSE, {})
  /\ sent' = NoSent
  /\ UNCHANGED <<deviceTokenStore, sessionStore, now, issued, polled, dialog>>

(* ---------------------------- login dialog ----------------------------- *)

\* const maxRetries = 3
maxRetries == 3

\* data.error?.includes(phrase), for the messages that login composes; the
\* broker's own messages are taken not to contain either phrase
includes(error, phrase) ==
  \/ /\ phrase = "device verification"
     /\ error.text = "Robinhood requires device verification."
  \/ /\ phrase = "approve the login"
     /\ error.text =
          "Please approve the login on your Robinhood app, then click Continue."

\* data.error || text
orElse(error, text) == IF error # NoMsg THEN error ELSE Msg(text, 0)

\* body: JSON.stringify({ action: "login", email, password, mfaCode,
\* challengeId })
LoginBody(mfaCode, challengeId) ==
  [action |-> "login", mfaCode |-> mfaCode, challengeId |-> challengeId]

\* a step of the dialog: it sends nothing upstream and changes no server state
DialogDo(d) ==
  /\ dialog' = d
  /\ sent' = NoSent
  /\ ret' = NoRet
  /\ UNCHANGED <<deviceTokenStore, sessionStore, now, call, issued, polled>>

\* await fetch("/api/robinhood", { method: "POST", body })
Fetch(d, pc, body) ==
  [d EXCEPT !.pc = pc, !.request = body,
            !.logins = IF body.action = "login" THEN @ + 1 ELSE @]

\* a handler starts: setError(null); setIsLoading(true)
Started(handler) ==
  [dialog EXCEPT !.error = NoMsg, !.handler = handler, !.from = dialog.step,
                 !.attempt = 0, !.delays = <<>>, !.data = NoResult,
                 !.log = <<>>, !.logins = 0, !.resolved = None]

\* the handler ends: setIsLoading(false)
Done(d) == [d EXCEPT !.pc = "idle", !.request = DialogInit.request, !.data = NoResult]

\* setChallengeId(data.challengeId); setChallengeType(data.challengeType);
\* setStep("mfa")
ToMfa(d, data) ==
  Done([d EXCEPT !.challengeId = data.challengeId,
                 !.challengeType = data.challengeType,
                 !.step = "mfa"])

\* handleCredentialsSubmit: the form of the credentials step is submitted
CredentialsSubmit ==
  /\ dialog.pc = "idle"
  /\ dialog.step = "credentials"
  /\ DialogDo(Fetch(Started("credentials"), "credentials:login",
                    LoginBody(FALSE, None)))

\* handleCredentialsSubmit: the response of the login request arrives, or
\* fetch / response.json() throws
CredentialsResponse(thrown) ==
  /\ dialog.pc = "credentials:login"
  /\ ret.op = "login"
  /\ LET data == ret.result
     IN DialogDo(
          IF thrown THEN Done([dialog EXCEPT !.error = Msg("Connection failed. Please try again.", 0)])
          ELSE IF data.success THEN Done([dialog EXCEPT !.step = "success"])
          ELSE IF data.shouldRetry
            THEN Fetch([dialog EXCEPT !.resolved = ret.obs.sheriff],
                       "credentials:retry", LoginBody(FALSE, None))
          ELSE IF data.deviceVerificationRequired
            THEN Done([dialog EXCEPT !.challengeId = data.challengeId,
                                     !.step = "device-verification"])
          ELSE IF data.mfaRequired THEN ToMfa(dialog, data)
          ELSE IF includes(data.error, "device verification")
            THEN Done([dialog EXCEPT !.step = "device-verification"])
          ELSE Done([dialog EXCEPT !.error =
                 orElse(data.error,
                        "Login failed. Please check your credentials.")]))

\* handleCredentialsSubmit: the response of the automatic retry arrives
CredentialsRetryResponse(thrown) ==
  /\ dialog.pc = "credentials:retry"
  /\ ret.op = "login"
  /\ LET retryData == ret.result
     IN DialogDo(
          IF thrown THEN Done([dialog EXCEPT !.error = Msg("Connection failed. Please try again.", 0)])
          ELSE IF retryData.success THEN Done([dialog EXCEPT !.step = "success"])
          ELSE Done([dialog EXCEPT !.error =
                 orElse(retryData.error,
                        "Login failed after verification. Please try again.")]))

\* handleMfaSubmit: the form of the mfa step is submitted with a code
MfaSubmit ==
  /\ dialog.pc = "idle"
  /\ dialog.step = "mfa"
  /\ DialogDo(Fetch(Started("mfa"), "mfa:login",
                    LoginBody(TRUE, dialog.challengeId)))

\* variant: a response that asks for device approval moves the dialog there
MfaResponseFollowsDevice(thrown) ==
  /\ dialog.pc = "mfa:login"
  /\ ret.op = "login"
  /\ LET data == ret.result
     IN DialogDo(
          IF thrown THEN Done([dialog EXCEPT !.error = Msg("Connection failed. Please try again.", 0)])
          ELSE IF data.success THEN Done([dialog EXCEPT !.step = "success"])
          ELSE IF data.deviceVerificationRequired \/ data.shouldRetry
            THEN Done([dialog EXCEPT !.step = "device-verification"])
          ELSE Done([dialog EXCEPT !.error =
                 orElse(data.error, "Invalid MFA code. Please try again.")]))

\* handleMfaSubmit: the response arrives, or fetch / response.json() throws
MfaResponse(thrown) ==
  /\ dialog.pc = "mfa:login"
  /\ ret.op = "login"
  /\ LET data == ret.result
     IN DialogDo(
          IF thrown THEN Done([dialog EXCEPT !.error = Msg("Connection failed. Please try again.", 0)])
          ELSE IF data.success THEN Done([dialog EXCEPT !.step = "success"])
          ELSE Done([dialog EXCEPT !.error =
                 orElse(data.error, "Invalid MFA code. Please try again.")]))

\* the delay before the attempt with loop variable attempt
retryDelay(attempt) ==
  IF attempt > 0 THEN <<0, 2000, 3000>>[attempt + 1] ELSE 0

\* variant: the loop goes on whether or not the attempt ended still pending
retryContinuesAlways(attempt, stillPending) == attempt < maxRetries - 1

\* if (attempt < maxRetries - 1 && stillPending) continue
retryContinues(attempt, stillPending) ==
  attempt < maxRetries - 1 /\ stillPending

\* data.deviceVerificationRequired || data.error?.includes("device
\* verification") || data.error?.includes("approve the login")
stillPending(data) ==
  \/ data.deviceVerificationRequired
  \/ includes(data.error, "device verification")
  \/ includes(data.error, "approve the login")

\* variant: the last attempt reports data.error whether or not it is pending
finalErrorPlain(data) == orElse(data.error, "Login failed. Please try again.")

\* the message set when the loop ends without success or code challenge
finalError(data) ==
  IF stillPending(data)
    THEN Msg("Verification still pending. Please approve on your Robinhood app, wait a moment, then try again.", 0)
  ELSE orElse(data.error, "Login failed. Please try again.")

\* how an attempt ended: it threw, or data was its first response
Ended(thrown, data) == [thrown |-> thrown, data |-> data]

\* the next iteration of the loop: attempt++, then the delay
NextAttempt(d, entry) ==
  [d EXCEPT !.attempt = @ + 1, !.pc = "continue:delay",
            !.request = DialogInit.request, !.data = NoResult,
            !.log = Append(@, entry)]

\* the part of the loop body after the automatic retry
AfterRetry(d) ==
  LET data == d.data
      entry == Ended(FALSE, data)
  IN IF data.mfaRequired THEN ToMfa([d EXCEPT !.log = Append(@, entry)], data)
     ELSE IF retryContinues(d.attempt, stillPending(data))
       THEN NextAttempt(d, entry)
       ELSE Done([d EXCEPT !.error = finalError(data),
                           !.log = Append(@, entry)])

\* variant: the catch gives up one attempt later
RetryCaughtLate(d) ==
  IF d.attempt = maxRetries
    THEN Done([d EXCEPT !.error = Msg("Connection failed. Please try again.", 0),
                        !.log = Append(@, Ended(TRUE, NoResult))])
    ELSE NextAttempt(d, Ended(TRUE, NoResult))

\* the catch of the loop body
RetryCaught(d) ==
  IF d.attempt = maxRetries - 1
    THEN Done([d EXCEPT !.error = Msg("Connection failed. Please try again.", 0),
                        !.log = Append(@, Ended(TRUE, NoResult))])
    ELSE NextAttempt(d, Ended(TRUE, NoResult))

\* handleDeviceVerificationRetry: Continue is clicked; the first attempt is
\* made at once
DeviceVerificationRetry ==
  /\ dialog.pc = "idle"
  /\ dialog.step = "device-verification"
  /\ DialogDo(Fetch([Started("continue") EXCEPT !.delays = <<retryDelay(0)>>],
                    "continue:login", LoginBody(FALSE, None)))

\* handleDeviceVerificationRetry: the delay of a later attempt is over
RetryWake ==
  /\ dialog.pc = "continue:delay"
  /\ DialogDo(Fetch([dialog EXCEPT
                       !.delays = Append(@, retryDelay(dialog.attempt))],
                    "continue:login", LoginBody(FALSE, None)))

\* handleDeviceVerificationRetry: the response of an attempt arrives
RetryResponse(thrown) ==
  /\ dialog.pc = "continue:login"
  /\ ret.op = "login"
  /\ LET data == ret.result
     IN DialogDo(
          IF thrown THEN RetryCaught(dialog)
          ELSE IF data.success
            THEN Done([dialog EXCEPT !.step = "success",
                                     !.log = Append(@, Ended(FALSE, data))])
          ELSE IF data.shouldRetry
            THEN Fetch([dialog EXCEPT !.data = data,
                                      !.resolved = ret.obs.sheriff],
                       "continue:retry", LoginBody(FALSE, None))
          ELSE AfterRetry([dialog EXCEPT !.data = data]))

\* handleDeviceVerificationRetry: the response of the automatic retry arrives
RetryRetryResponse(thrown) ==
  /\ dialog.pc = "continue:retry"
  /\ ret.op = "login"
  /\ LET retryData == ret.result
     IN DialogDo(
          IF thrown THEN RetryCaught(dialog)
          ELSE IF retryData.success
            THEN Done([dialog EXCEPT
                         !.step = "success",
                         !.log = Append(@, Ended(FALSE, dialog.data))])
          ELSE AfterRetry(dialog))

\* variant: the login request is posted without the reset request before it
RequestNewVerificationNoReset ==
  /\ dialog.pc = "idle"
  /\ dialog.step = "device-verification"
  /\ DialogDo(Fetch(Started("new"), "new:login", LoginBody(FALSE, None)))

\* handleRequestNewVerification: the resetDevice request is posted
RequestNewVerification ==
  /\ dialog.pc = "idle"
  /\ dialog.step = "device-verification"
  /\ DialogDo(Fetch(Started("new"), "new:reset",
                    [action |-> "resetDevice", mfaCode |-> FALSE,
                     challengeId |-> None]))

\* handleRequestNewVerification: the reset request completes (its response is
\* not read) or throws; the login request follows
NewResetResponse(thrown) ==
  /\ dialog.pc = "new:reset"
  /\ ret.op = "resetDevice"
  /\ DialogDo(IF thrown
                THEN Done([dialog EXCEPT !.error = Msg("Connection failed. Please try again.", 0)])
                ELSE Fetch(dialog, "new:login", LoginBody(FALSE, None)))

\* handleRequestNewVerification: the response of the login request arrives
NewLoginResponse(thrown) ==
  /\ dialog.pc = "new:login"
  /\ ret.op = "login"
  /\ LET data == ret.result
     IN DialogDo(
          IF thrown THEN Done([dialog EXCEPT !.error = Msg("Connection failed. Please try again.", 0)])
          ELSE IF data.success THEN Done([dialog EXCEPT !.step = "success"])
          ELSE IF data.mfaRequired THEN ToMfa(dialog, data)
          ELSE IF includes(data.error, "device verification")
            THEN Done([dialog EXCEPT !.error = NoMsg])
          ELSE Done([dialog EXCEPT !.error =
                 orElse(data.error, "Login failed. Please try again.")]))

\* the Back button of the mfa and the device-verification step
Back ==
  /\ dialog.pc = "idle"
  /\ dialog.step \in {"mfa", "device-verification"}
  /\ DialogDo([dialog EXCEPT !.step = "credentials", !.error = NoMsg,
                             !.handler = "back", !.from = dialog.step])

\* POST /api/robinhood {action: "login"}: the route calls login with the
\* mfaCode and the challengeId of the body
PostLogin ==
  /\ dialog.request.action = "login"
  /\ ret.op = "none"
  /\ \E fresh \in DeviceTokens :
       LoginStart(1, "u1", dialog.request.mfaCode, dialog.request.challengeId,
                  fresh)

\* POST /api/robinhood {action: "resetDevice"}
PostResetDevice ==
  /\ dialog.pc = "new:reset"
  /\ ret.op = "none"
  /\ ResetDevice("u1")

(* --------------------------- specifications ---------------------------- *)

\* the steps of login up to the token response and after an access_token
LoginDirectStep(c, users, responses) ==
  \/ \E u \in users, code \in BOOLEAN, ch \in ChallengeIds \cup {None},
        fresh \in DeviceTokens :
       LoginStart(c, u, code, ch, fresh)
  \/ \E reply \in ChallengeReplies, thrown \in BOOLEAN :
       LoginChallengeResponse(c, reply, thrown)
  \/ \E data \in responses, thrown \in BOOLEAN :
       LoginTokenResponse(c, data, thrown)
  \/ \E outcome \in {"found", "empty", "throw"} :
       LoginAccountsResponse(c, outcome)
  \/ \E stored \in BOOLEAN : LoginSetSession(c, stored)

\* the steps of login on a verification workflow
LoginWorkflowStep(c) ==
  \/ \E outcome \in InquiryIds \cup {"noId", "throw"} :
       LoginPathfinderResponse(c, outcome)
  \/ \E outcome \in {"challenge", "noChallenge", "throw"},
        ch \in ChallengeIds, ty \in ChallengeKinds \cup {None} :
       LoginInquiryResponse(c, outcome, ch, ty)
  \/ \E outcome \in {"validated", "pending", "non2xx", "throw"} :
       LoginPollResponse(c, outcome)
  \/ LoginPollWake(c)
  \/ LoginContinueResponse(c)

LogoutStep(c, users) ==
  \/ \E u \in users : LogoutStart(c, u)
  \/ \E outcome \in {"ok", "httpError", "throw"} :
       LogoutRevokeResponse(c, outcome)
  \/ LogoutClearSession(c)

\* One user's login and logout calls, one at a time, with status and reset
\* requests arriving at any moment, while the clock advances.
Next ==
  \/ Tick
  \/ \E u \in {"u1"} : Status(u)
  \/ \E u \in {"u1"} : ResetDevice(u)
  \/ LoginDirectStep(1, {"u1"}, TokenResponses)
  \/ LoginWorkflowStep(1)
  \/ LogoutStep(1, {"u1"})

Spec == Init /\ [][Next]_vars

\* One user's requests overlapping in time (duplicate submissions, a second
\* tab): every call slot runs a call of its own.  The broker demands no
\* device verification here.
NextOverlap ==
  \/ \E u \in {"u1"} : Status(u)
  \/ \E u \in {"u1"} : ResetDevice(u)
  \/ \E c \in Calls :
       LoginDirectStep(c, {"u1"}, {data \in TokenResponses : ~data.wf})
  \/ \E c \in Calls : LogoutStep(c, {"u1"})

SpecOverlap == Init /\ [][NextOverlap]_vars

\* One login call whose request may be cancelled while it is in flight.
NextCancel ==
  \/ LoginDirectStep(1, {"u1"}, TokenResponses)
  \/ LoginWorkflowStep(1)
  \/ Cancel(1)

SpecCancel == Init /\ [][NextCancel]_vars

\* the broker data that getPortfolio meets on its fallback path
PortfolioData ==
  [stocks |->
     Paged({StockPosition(2, Absent, TRUE), StockPosition(2, 11, TRUE)},
           <<StockPosition(2, Absent, TRUE), StockPosition(1, Absent, FALSE)>>),
   holdings |->
     {<<>>, <<CryptoHolding(3, <<Lot(50, 1)>>, TRUE)>>,
      <<CryptoHolding(3, <<Lot(100, 2)>>, TRUE), CryptoHolding(3, <<>>, FALSE)>>},
   options |->
     {<<<<>>>>, <<<<OptionPosition(1, TRUE, 100, "short")>>>>,
      <<<<OptionPosition(1, TRUE, 100, "long")>>,
        <<OptionPosition(1, TRUE, 10, "long")>>>>}]

\* the steps of getPortfolio after its session check
PortfolioStep(c) ==
  \/ PortfolioPhoenixSession(c)
  \/ /\ call[c].pc = "unified"
     /\ \E outcome \in {"ok", "non2xx", "throw"},
           account \in [total_equity : {50}, portfolio_equity : {30},
                        uninvested_cash : {5}, account_buying_power : {6},
                        total_previous_close : {Absent, 0, 40},
                        previous_close : {Absent, 100},
                        portfolio_previous_close : {25},
                        crypto_buying_power : {Absent, 7},
                        options_buying_power : {Absent, 8},
                        equities : {Absent, 30}, crypto : {Absent, 10}] :
          PortfolioUnifiedResponse(c, outcome, account)
  \/ PortfolioAccountSession(c)
  \/ /\ call[c].pc = "fallbackAccount"
     /\ \E outcome \in {"found", "empty", "throw"}, cash \in {0, 5},
           pages \in PortfolioData.stocks, thrown \in BOOLEAN :
          PortfolioAccountResponse(c, outcome, cash, pages, thrown)
  \/ PortfolioCryptoSession(c)
  \/ \E holdings \in PortfolioData.holdings, thrown \in BOOLEAN :
       PortfolioCryptoResponse(c, holdings, thrown)
  \/ PortfolioOptionsSession(c)
  \/ \E pages \in PortfolioData.options, thrown \in BOOLEAN :
       PortfolioOptionsResponse(c, pages, thrown)

\* the replies to the other data operations
DataResponseStep(c) ==
  \/ \E outcome \in {"found", "empty", "throw"} : AccountResponse(c, outcome)
  \/ /\ call[c].pc = "positions"
     /\ \E pages \in StockPages, thrown \in BOOLEAN :
          PositionsResponse(c, pages, thrown)
  \/ /\ call[c].pc = "holdings"
     /\ \E holdings \in CryptoHoldingLists, thrown \in BOOLEAN :
          CryptoResponse(c, holdings, thrown)
  \/ /\ call[c].pc = "optionPositions"
     /\ \E pages \in OptionPages, thrown \in BOOLEAN :
          OptionsResponse(c, pages, thrown)
  \/ /\ call[c].pc = "optionOrders"
     /\ \E pages \in OrderPages, thrown \in BOOLEAN :
          OrdersResponse(c, pages, thrown)

\* A user who is or is not connected: the session store is empty or holds
\* the session of an earlier login, valid for one more second.
InitData ==
  /\ deviceTokenStore = EmptyMap
  /\ sessionStore \in
       {EmptyMap,
        setSession(EmptyMap, "u1",
                   [accessToken |-> "a1", expiresAt |-> 1000,
                    accountId |-> "account_number"])}
  /\ now = 0
  /\ call = [c \in Calls |-> Idle]
  /\ sent = NoSent
  /\ ret = NoRet
  /\ issued = [u \in Users |-> Issued("none", None)]
  /\ polled = {}
  /\ dialog = DialogInit

\* The data operations of one user, called directly or by a tool, one at a
\* time, while the clock advances.
NextData ==
  \/ Tick
  \/ \E name \in DataNames : ToolStart(1, "u1", name)
  \/ \E name \in DataNames : DataStart(1, "u1", name)
  \/ DataResponseStep(1)
  \/ PortfolioStep(1)

SpecData == InitData /\ [][NextData]_vars

\* One user logs in and reads the stock positions, one call at a time.
NextEnrich ==
  \/ LoginDirectStep(1, {"u1"},
       {data \in TokenResponses :
          ~data.wf /\ ~data.mfa_required /\ data.challenge = None})
  \/ DataStart(1, "u1", "getPositions")
  \/ /\ call[1].pc = "positions"
     /\ \E pages \in StockPages, thrown \in BOOLEAN :
          PositionsResponse(1, pages, thrown)

SpecEnrich == Init /\ [][NextEnrich]_vars

\* Two users, each with a call slot of their own: the calls of one user
\* interleave with the calls, status and reset requests of the other.
NextIsolation ==
  \/ \E u \in Users : Status(u)
  \/ \E u \in Users : ResetDevice(u)
  \/ \E c \in Calls :
       LoginDirectStep(c, {<<"u1", "u2">>[c]},
         {data \in TokenResponses :
            /\ ~data.wf /\ ~data.mfa_required /\ data.challenge = None
            /\ ~data.detail /\ ~data.error_description /\ ~data.message
            /\ data.error \in {None, "string"}
            /\ data.ok = (data.error = None)
            /\ data.access_token # None =>
                 data.access_token = <<"a1", "a2">>[c] /\ data.expires_in = 1})
  \/ \E c \in Calls : LogoutStep(c, {<<"u1", "u2">>[c]})
  \/ \E c \in Calls : DataStart(c, <<"u1", "u2">>[c], "getPositions")
  \/ \E c \in Calls :
       /\ call[c].pc = "positions"
       /\ PositionsResponse(c, <<<<StockPosition(2, Absent, TRUE)>>>>, FALSE)

SpecIsolation == Init /\ [][NextIsolation]_vars

\* the token responses the dialog meets: one or two of each rule of login
DialogResponses ==
  {data \in TokenResponses :
     /\ data.access_token # "a2"
     /\ data.error # "object"
     /\ ~data.detail
     /\ data.wf => (~data.mfa_required /\ data.error = None)
     /\ data.challenge # None => data.error = None}

\* One user signs in through the dialog: every request of the dialog is
\* answered by the route, which runs login, before the dialog goes on.
NextDialog ==
  \/ CredentialsSubmit
  \/ \E thrown \in BOOLEAN : CredentialsResponse(thrown)
  \/ \E thrown \in BOOLEAN : CredentialsRetryResponse(thrown)
  \/ MfaSubmit
  \/ \E thrown \in BOOLEAN : MfaResponse(thrown)
  \/ DeviceVerificationRetry
  \/ RetryWake
  \/ \E thrown \in BOOLEAN : RetryResponse(thrown)
  \/ \E thrown \in BOOLEAN : RetryRetryResponse(thrown)
  \/ RequestNewVerification
  \/ \E thrown \in BOOLEAN : NewResetResponse(thrown)
  \/ \E thrown \in BOOLEAN : NewLoginResponse(thrown)
  \/ Back
  \/ PostLogin
  \/ PostResetDevice
  \/ \E reply \in ChallengeReplies, thrown \in BOOLEAN :
       LoginChallengeResponse(1, reply, thrown)
  \/ \E data \in DialogResponses, thrown \in BOOLEAN :
       LoginTokenResponse(1, data, thrown)
  \/ \E outcome \in {"found", "empty", "throw"} :
       LoginAccountsResponse(1, outcome)
  \/ \E stored \in BOOLEAN : LoginSetSession(1, stored)
  \/ LoginWorkflowStep(1)

SpecDialog == Init /\ [][NextDialog]_vars

(* ------------------------------ properties ----------------------------- *)

\* C1: in every reachable state connectionStatus(u).connected is true exactly
\* when a session record exists for u and its expiresAt is strictly greater
\* than the current time; a stored session with expiresAt <= now is reported
\* as not connected by the read that finds it.
C1_ConnectedIffValidSession ==
  /\ \A u \in Users :
       getConnectionStatus(sessionStore, u, now).connected
         <=> (Has(sessionStore, u) /\ sessionStore[u].expiresAt > now)
  /\ ret.op = "status" =>
       /\ ret.result.connected <=> (\E s \in ret.read : s.expiresAt > ret.at)
       /\ ret.result.expiresAt =
            {s.expiresAt : s \in {r \in ret.read : r.expiresAt > ret.at}}

\* a status read finds a stored session that expires at this very instant
C1_Witness ==
  /\ ret.op = "status"
  /\ ~ret.result.connected
  /\ \E s \in ret.read : s.expiresAt = ret.at

\* C2 (as claimed): once a login has returned success, its stored session is
\* never overwritten by the session write of a login of the same user that
\* started earlier and was still in flight.
C2_NoStaleSessionWrite ==
  (ret.op = "login" /\ ret.result.success) => ~ret.obs.stale

\* C3: when logout returns, whatever the revoke request did, the user has no
\* session record and no device token.
C3_LogoutClearsLocalState ==
  ret.op = "logout" =>
    /\ ~Has(sessionStore, ret.user)
    /\ ~Has(deviceTokenStore, ret.user)

\* a logout whose revoke request threw returns, having held a device token
C3_Witness ==
  /\ ret.op = "logout"
  /\ ret.obs.revoke = "throw"
  /\ ret.held # {}

\* C4 (as claimed): two consecutive getOrCreate calls with no clear or reset
\* between them return the same token, and the first getOrCreate after a
\* clear or reset returns a token different from the one held before it.
C4_DifferentTokenAfterClear ==
  sent.got.token # None =>
    /\ sent.got.prior.state = "issued" => sent.got.token = sent.got.prior.token
    /\ sent.got.prior.state = "cleared" => sent.got.token # sent.got.prior.token

\* C4 (amended): two consecutive getOrCreate calls with no clear or reset
\* between them return the same token and the second generates nothing; the
\* first getOrCreate after a clear or reset generates a token, stores it and
\* returns it.
C4_TokenKeptUntilCleared ==
  sent.got.token # None =>
    /\ sent.got.prior.state = "issued" =>
         /\ sent.got.token = sent.got.prior.token
         /\ ~sent.got.generated
    /\ sent.got.prior.state # "issued" => sent.got.generated
    /\ Has(deviceTokenStore, sent.user)
    /\ deviceTokenStore[sent.user] = sent.got.token

\* the token generated after a clear is the one that was held before it
C4_Witness ==
  /\ sent.got.prior.state = "cleared"
  /\ sent.got.generated
  /\ sent.got.token = sent.got.prior.token

\* C5 (as claimed): every token request and every workflow initiation carries
\* the device token that the registry holds for the user.
C5_SubmissionCarriesRegistryToken ==
  sent.kind \in {"token", "pathfinder"} =>
    /\ Has(deviceTokenStore, sent.user)
    /\ deviceTokenStore[sent.user] = sent.deviceToken

\* the delays before the first k status checks
PollPattern(k) == [i \in 1..k |-> IF i = 1 THEN 0 ELSE 2000]

\* C6: one poll makes at most 6 status checks, the first without delay and
\* each later one after 2 s; it reports validated at the first check that
\* sees validated and not validated after the 6th check otherwise, a non-2xx
\* or thrown check counting as one check.
C6_PollBudget ==
  /\ \A c \in Calls :
       call[c].pc \in {"pollCheck", "pollSleep"} =>
         /\ call[c].attempt < 6
         /\ call[c].firstValidated = 0
         /\ Len(call[c].delays) =
              call[c].attempt + (IF call[c].pc = "pollCheck" THEN 1 ELSE 0)
         /\ call[c].delays = PollPattern(Len(call[c].delays))
  /\ (ret.op = "login" /\ ret.obs.pc \in {"pollCheck", "continue"}) =>
       /\ ret.obs.attempt \in 1..6
       /\ ret.obs.delays = PollPattern(ret.obs.attempt)
       /\ ret.obs.firstValidated # 0 =>
            /\ ret.obs.firstValidated = ret.obs.attempt
            /\ ret.result.shouldRetry
       /\ ret.obs.firstValidated = 0 =>
            /\ ret.obs.attempt = 6
            /\ ~ret.result.shouldRetry

\* a poll ends after six checks of which some failed
C6_Witness ==
  /\ ret.op = "login"
  /\ ret.obs.pc = "pollCheck"
  /\ ret.obs.attempt = 6
  /\ ret.obs.pollError

\* C7 (as claimed): a poll that sees validated on its k-th check succeeds
\* after exactly k checks with delays [0, 2s, ..., 2s], and a login invoked
\* again for a challenge that was polled before does not start its check
\* count and delay sequence from zero.
C7_PollNotRestarted ==
  /\ (ret.op = "login" /\ ret.result.shouldRetry) =>
       /\ ret.obs.attempt = ret.obs.firstValidated
       /\ ret.obs.delays = PollPattern(ret.obs.firstValidated)
  /\ \A c \in Calls :
       (call[c].pc = "pollCheck" /\ call[c].resumed) =>
         ~(call[c].attempt = 0 /\ call[c].delays = <<0>>)

\* C7 (amended): a poll that sees validated on its k-th check (1 <= k <= 6)
\* succeeds after exactly k checks with delays [0, 2s, ..., 2s] counted from
\* the start of that login call's poll; every login call that reaches a
\* prompt challenge starts its poll from zero, also for a challenge that an
\* earlier call polled.
C7_PollPerLoginCall ==
  /\ (ret.op = "login" /\ ret.result.shouldRetry) =>
       /\ ret.obs.firstValidated \in 1..6
       /\ ret.obs.attempt = ret.obs.firstValidated
       /\ ret.obs.delays = PollPattern(ret.obs.firstValidated)
  /\ \A c \in Calls :
       (call[c].pc = "pollCheck" /\ sent.kind = "promptStatus"
          /\ call[c].attempt = 0) =>
         call[c].delays = <<0>>

\* a login invoked again for a polled challenge succeeds on its third check
C7_Witness ==
  /\ ret.op = "login"
  /\ ret.result.shouldRetry
  /\ ret.obs.resumed
  /\ ret.obs.firstValidated = 3

\* C8: when the poll budget is exhausted without validated, login returns
\* success = false, deviceVerificationRequired = true and the challenge id;
\* the result of an authentication failure never has
\* deviceVerificationRequired, so the two differ in the result alone.
C8_StillPendingNotFailure ==
  ret.op = "login" =>
    /\ (ret.obs.pc = "pollCheck" /\ ret.obs.firstValidated = 0) =>
         /\ ~ret.result.success
         /\ ret.result.deviceVerificationRequired
         /\ ret.result.challengeId = ret.obs.sheriff
         /\ ret.result.challengeId # None
    /\ (/\ ret.obs.pc = "tokenRequest"
        /\ ~ret.obs.data.wf
        /\ ~ret.obs.data.mfa_required /\ ret.obs.data.challenge = None
        /\ (~ret.obs.data.ok \/ ret.obs.data.error # None)) =>
         /\ ~ret.result.success
         /\ ~ret.result.deviceVerificationRequired

\* login reports a prompt challenge as still pending
C8_Witness ==
  /\ ret.op = "login"
  /\ ret.result.deviceVerificationRequired
  /\ ret.result.challengeId = "c1"
  /\ ret.obs.attempt = 6

\* C9: when login is called with a code and a challengeId and the challenge
\* reply reports the code invalid with N attempts remaining, the result has
\* mfaRequired, the message with exactly N, and the challengeId submitted;
\* no token request is sent after such a reply.
C9_InvalidCodeKeepsChallenge ==
  /\ (/\ ret.op = "login"
      /\ ret.obs.pc = "challengeRespond"
      /\ ret.obs.reply.challenge
      /\ ret.obs.reply.status # "validated"
      /\ ret.obs.reply.remaining_attempts >= 0) =>
       /\ ~ret.result.success
       /\ ret.result.mfaRequired
       /\ ret.result.challengeId = ret.obs.challengeId
       /\ ret.result.challengeId # None
       /\ ret.result.error.n = ret.obs.reply.remaining_attempts
  /\ sent.kind = "token" =>
       ~(/\ sent.reply.challenge
         /\ sent.reply.status # "validated"
         /\ sent.reply.remaining_attempts >= 0)

\* an invalid code with 2 attempts remaining for challenge c1
C9_Witness ==
  /\ ret.op = "login"
  /\ ret.obs.pc = "challengeRespond"
  /\ ret.obs.reply.remaining_attempts = 2
  /\ ret.result.error.n = 2
  /\ ret.result.challengeId = "c1"

\* the first rule of the priority order that a token response matches
FirstRule(d) ==
  CASE d.wf -> 1
    [] ~d.wf /\ (d.mfa_required \/ d.challenge # None) -> 2
    [] ~d.wf /\ ~d.mfa_required /\ d.challenge = None
         /\ (~d.ok \/ d.error # None) -> 3
    [] ~d.wf /\ ~d.mfa_required /\ d.challenge = None
         /\ d.ok /\ d.error = None /\ d.access_token # None -> 4
    [] OTHER -> 5

\* C10: the outcome of login for a token response is that of the first
\* matching rule in the order verification_workflow, mfa_required or
\* challenge, non-2xx or error, access_token; only a response whose first
\* match is the access_token rule reaches the session write.
C10_FirstMatchingRule ==
  /\ (/\ ret.op = "login"
      /\ ret.obs.pc # "challengeRespond"
      /\ ret.result # CaughtResult) =>
       LET rule == FirstRule(ret.obs.data)
       IN /\ rule = 1 =>
               /\ ret.obs.pc \in {"pathfinder", "inquiry", "pollCheck", "continue"}
               /\ ~ret.result.success
          /\ rule = 2 =>
               /\ ret.obs.pc = "tokenRequest"
               /\ ret.result.mfaRequired /\ ~ret.result.success
          /\ rule = 3 =>
               /\ ret.obs.pc = "tokenRequest"
               /\ ~ret.result.success /\ ~ret.result.mfaRequired
               /\ ~ret.result.deviceVerificationRequired
               /\ ~ret.result.shouldRetry
               /\ ret.result.error.text # None
               /\ ret.result # UnexpectedResult
          /\ rule = 4 => ret.result.success
          /\ rule = 5 => ret.result = UnexpectedResult
  /\ \A c \in Calls :
       call[c].pc \in {"accounts", "setSession"} => FirstRule(call[c].data) = 4
  /\ (ret.op = "login" /\ ret.result.success) => FirstRule(ret.obs.data) = 4

\* a response with verification_workflow and an access_token gives no success
C10_Witness ==
  /\ ret.op = "login"
  /\ ret.obs.data.wf
  /\ ret.obs.data.access_token # None
  /\ ~ret.result.success

\* C11: whenever login returns success = true, the session store holds for
\* the user a session whose accessToken is the one of the token response and
\* whose expiresAt is the time of the response plus expires_in (seconds), and
\* the registry holds no device token for the user.
C11_SuccessStoresSession ==
  (ret.op = "login" /\ ret.result.success) =>
    /\ Has(sessionStore, ret.user)
    /\ sessionStore[ret.user].accessToken = ret.obs.data.access_token
    /\ sessionStore[ret.user].accessToken # None
    /\ sessionStore[ret.user].expiresAt =
         ret.obs.respondedAt + ret.obs.data.expires_in * 1000
    /\ ~Has(deviceTokenStore, ret.user)

\* a login succeeds whose token response arrived a second before the session
\* was stored
C11_Witness ==
  /\ ret.op = "login"
  /\ ret.result.success
  /\ ret.obs.respondedAt = 1000
  /\ now = 2000
  /\ sessionStore[ret.user].expiresAt = 2000

\* C18: a login call never ends with an exception: when the token request or
\* its body, a workflow request or the session store write throws, login
\* returns a result with success = false and a message; a 2xx token response
\* with none of verification_workflow, mfa_required, challenge, error and
\* access_token gives success = false with the generic message.
C18_LoginNeverThrows ==
  /\ ret.op # "loginThrow"
  /\ ret.op = "login" =>
       /\ ret.result.success \in BOOLEAN
       /\ ret.obs.thrown # None =>
            /\ ~ret.result.success
            /\ ret.result.error.text # None
       /\ ret.obs.thrown \in {"token", "store"} => ret.result = CaughtResult
       /\ (/\ ret.obs.pc = "tokenRequest"
           /\ ret.obs.thrown = None
           /\ FirstRule(ret.obs.data) = 5) =>
            /\ ret.result = UnexpectedResult
            /\ ~ret.result.success

\* the session store write of a login throws
C18_Witness ==
  /\ ret.op = "login"
  /\ ret.obs.thrown = "store"
  /\ ret.obs.pc = "setSession"
  /\ ~ret.result.success

\* C19 (as claimed): after the request of a login was cancelled while its
\* poll was sleeping or awaiting a check, that login sends no further status
\* check and no continue call.
C19_PollStopsOnCancel ==
  \A c \in Calls :
    call[c].cancelled \in {"pollSleep", "pollCheck"} =>
      ~(sent.kind \in {"promptStatus", "continue"} /\ sent.user = call[c].user)

\* C20: when a status read finds a session whose expiresAt <= now, it reports
\* not connected and the session store holds no record for the user
\* afterwards.
C20_ExpiredReadPurges ==
  (ret.op = "status" /\ \E s \in ret.read : s.expiresAt <= ret.at) =>
    /\ ~ret.result.connected
    /\ ~Has(sessionStore, ret.user)

\* a status read finds a session that expired a second ago
C20_Witness ==
  /\ ret.op = "status"
  /\ \E s \in ret.read : s.expiresAt = ret.at - 1000

\* the pcs of getPortfolio on its fallback path
FallbackPcs == {"accountSession", "fallbackAccount", "cryptoSession",
                "crypto", "optionsSession", "portfolioOptions"}

\* C12: each of getAccount, getPortfolio, getPositions, getOptionsPositions,
\* getCryptoHoldings and getTodayOptionsOrders, called directly or by its
\* tool, checks the session first: without a valid session it sends no
\* upstream request and gives the not-connected signal (the exception "Not
\* connected to Robinhood. ..." or the tool's needsConnection result), and a
\* call that goes on to a request holds the session it read.
C12_NotConnectedChecked ==
  /\ \A c \in Calls : call[c].pc \in DataPcs => call[c].session # NoSession
  /\ (ret.op = "data" /\ ret.first) =>
       /\ \A s \in ret.read : s.expiresAt <= ret.at
       /\ sent = NoSent
       /\ ret.result.kind # "value"
       /\ IF ret.obs.tool /\ ret.obs.pc = "idle"
            THEN ret.result = NeedsConnection
            ELSE ret.result.error = NotConnected
       /\ \A c \in Calls : call[c].pc \notin DataPcs

\* getPortfolio is called while the stored session has expired
C12_Witness ==
  /\ ret.op = "data"
  /\ ret.first
  /\ ret.name = "getPortfolio"
  /\ ~ret.obs.tool
  /\ ret.read # {}
  /\ ret.result = Thrown(NotConnected)

\* C13: after the unified-account request failed (exception or non-2xx),
\* getPortfolio is on its fallback path; a portfolio it returns is the
\* fallback computation, and it fails only at a later step (the session
\* check or the request of getAccount), never at the unified request.
C13_UnifiedFailureFallsBack ==
  /\ \A c \in Calls :
       call[c].unified \in {"non2xx", "throw"} => call[c].pc \in FallbackPcs
  /\ (/\ ret.op = "data"
      /\ ret.name = "getPortfolio"
      /\ ret.obs.unified \in {"non2xx", "throw"}) =>
       /\ ret.obs.pc \in FallbackPcs
       /\ ret.result.kind = "value" => ret.result.value.path = "fallback"
       /\ ret.result.kind # "value" =>
            ret.obs.pc \in {"accountSession", "fallbackAccount"}

\* the unified request throws and getPortfolio returns the fallback portfolio
C13_Witness ==
  /\ ret.op = "data"
  /\ ret.name = "getPortfolio"
  /\ ret.obs.unified = "throw"
  /\ ret.result.kind = "value"
  /\ ret.result.value.path = "fallback"
  /\ ret.result.value.totalValue > ret.result.value.cash

\* C14 (as claimed): the totalValue of a fallback portfolio is cash plus the
\* sums of the marketValue that getPositions, getCryptoHoldings and
\* getOptionsPositions report for the same upstream data (cash alone when
\* there is no position).
C14_FallbackTotalIsSumOfReported ==
  (/\ ret.op = "data"
   /\ ret.name = "getPortfolio"
   /\ ret.result.kind = "value"
   /\ ret.result.value.path = "fallback"
   /\ ret.obs.world.holdingsOk
   /\ ret.obs.world.optionsOk) =>
    ret.result.value.totalValue =
      ret.obs.world.cash
      + totalMarketValue(formattedPositions(firstPage(ret.obs.world.stocks)))
      + totalMarketValue(formattedHoldings(ret.obs.world.holdings))
      + totalMarketValue(formattedOptions(firstPage(ret.obs.world.options)))

\* C15 (as claimed): the records that getPositions, getOptionsPositions, the
\* position fetch of the fallback portfolio and the order fetch process are
\* the concatenation of all pages.
C15_AllPagesProcessed ==
  /\ (ret.op = "data" /\ ret.result.kind = "value") =>
       /\ ret.name = "getPositions" =>
            ret.obs.seen = Flatten(ret.obs.world.stocks)
       /\ ret.name = "getOptionsPositions" =>
            ret.obs.seen = Flatten(ret.obs.world.options)
       /\ ret.name = "getTodayOptionsOrders" =>
            ret.obs.seen = Flatten(ret.obs.world.orders)
  /\ \A c \in Calls :
       call[c].pc = "cryptoSession" =>
         call[c].seen = Flatten(call[c].world.stocks)

\* the option positions that getOptionsPositions returns have, for quantity
\* q, current price p, average cost c and the multiplier m of the record (100
\* when the record's multiplier is in absent), marketValue = q*p*m and
\* totalGainLoss = q*p*m - q*c*m when long, q*c*m - q*p*m when short, which
\* is the negation of the long result for the same inputs
OptionValues(absent) ==
  (ret.op = "data" /\ ret.name = "getOptionsPositions"
     /\ ret.result.kind = "value") =>
    LET kept == Nonzero(ret.obs.seen)
        out == ret.result.value
    IN /\ Len(out) = Len(kept)
       /\ \A i \in 1..Len(kept) :
            LET q == kept[i].quantity
                p == out[i].currentPrice
                c == kept[i].average_price
                m == IF kept[i].trade_value_multiplier \in absent
                       THEN 100 ELSE kept[i].trade_value_multiplier
            IN /\ out[i].quantity = q
               /\ out[i].averageCost = c
               /\ out[i].marketValue = q * p * m
               /\ kept[i].type = "long" =>
                    out[i].totalGainLoss = q * p * m - q * c * m
               /\ kept[i].type = "short" =>
                    /\ out[i].totalGainLoss = q * c * m - q * p * m
                    /\ out[i].totalGainLoss =
                         0 - formatOption([kept[i] EXCEPT !.type = "long"])
                               .totalGainLoss

\* C16 (as claimed): marketValue = q*p*m, cost = q*c*m and totalGainLoss =
\* marketValue - cost when long, cost - marketValue when short, with m taken
\* from the position record and 100 when the record has none.
C16_OptionValuesAsClaimed == OptionValues({Absent})

\* C16 (amended): marketValue = q*p*m, cost = q*c*m and totalGainLoss =
\* marketValue - cost when long, cost - marketValue when short (the negation
\* of the long result), with m taken from the position record and 100 when
\* the record has none or has a multiplier of zero.
C16_OptionValues == OptionValues({Absent, 0})

\* a short position with c = 2, p = 3, q = 1, m = 100 has lost 100
C16_Witness ==
  /\ ret.op = "data"
  /\ ret.name = "getOptionsPositions"
  /\ ret.result.kind = "value"
  /\ \E i \in 1..Len(ret.result.value) :
       /\ ret.result.value[i].positionType = "short"
       /\ ret.result.value[i].quantity = 1
       /\ ret.result.value[i].averageCost = 2
       /\ ret.result.value[i].currentPrice = 3
       /\ ret.result.value[i].marketValue = 300
       /\ ret.result.value[i].totalGainLoss = -100

\* C17: for every crypto holding with nonzero quantity, averageCost is the
\* sum of direct_cost_basis over its lots divided by the sum of
\* direct_quantity over its lots when that sum is positive, and 0 (no
\* division) when it is not.
C17_CryptoAverageCost ==
  (ret.op = "data" /\ ret.name = "getCryptoHoldings"
     /\ ret.result.kind = "value") =>
    LET kept == Nonzero(ret.obs.seen)
        out == ret.result.value
    IN /\ Len(out) = Len(kept)
       /\ \A i \in 1..Len(kept) :
            LET lots == kept[i].cost_bases
                cost == SumValues([k \in 1..Len(lots) |->
                                     lots[k].direct_cost_basis], Len(lots))
                quantity == SumValues([k \in 1..Len(lots) |->
                                         lots[k].direct_quantity], Len(lots))
            IN /\ out[i].averageCost.den # 0
               /\ quantity > 0 =>
                    out[i].averageCost.num * quantity
                      = cost * out[i].averageCost.den
               /\ quantity <= 0 => out[i].averageCost.num = 0

\* lots {cost = 100, qty = 2} and {cost = 50, qty = 1} give 50, and a holding
\* whose lot quantities sum to less than zero gives 0
C17_Witness ==
  /\ ret.op = "data"
  /\ ret.name = "getCryptoHoldings"
  /\ ret.result.kind = "value"
  /\ Len(ret.result.value) = 2
  /\ ret.obs.seen[1].cost_bases = <<Lot(50, 1), Lot(30, -3)>>
  /\ ret.result.value[1].averageCost = Quotient(0, 1)
  /\ ret.obs.seen[2].cost_bases = <<Lot(50, 1)>>
  /\ ret.result.value[2].averageCost.num = 50 * ret.result.value[2].averageCost.den

\* the awaits of login on a verification workflow
WorkflowPcs == {"pathfinder", "inquiry", "pollCheck", "pollSleep", "continue"}

\* a login call whose poll saw validated returns shouldRetry, having sent one
\* token request and built no session
ValidatedOutcome ==
  /\ (ret.op = "login" /\ ret.obs.firstValidated # 0) =>
       /\ ret.result = ShouldRetryResult
       /\ ~ret.result.success
       /\ ret.result.shouldRetry
       /\ ret.obs.firstValidated \in 1..maxAttempts
       /\ ret.obs.tokenRequests = 1
       /\ ret.obs.session = NoSession
  /\ (ret.op = "login" /\ ret.result.shouldRetry) =>
       ret.obs.firstValidated # 0
  /\ \A c \in Calls :
       call[c].pc \in WorkflowPcs =>
         /\ call[c].tokenRequests = 1
         /\ sent.kind # "token"
         /\ call[c].session = NoSession

\* a step of a login call on its verification workflow leaves the session
\* store and the device token registry as they are
WorkflowKeepsStores ==
  \A c \in Calls :
    (call[c].pc \in WorkflowPcs /\ call'[c] # call[c]) =>
      /\ sessionStore' = sessionStore
      /\ deviceTokenStore' = deviceTokenStore

\* C22: when a status check of the poll sees validated, the same login call
\* returns success = false with shouldRetry = true (and no challenge, no
\* error); it has sent one token request, the initial one, and has built no
\* session; no step of a login call on its verification workflow changes the
\* session store or the device token registry.
C22_ValidatedReturnsShouldRetry ==
  []ValidatedOutcome /\ [][WorkflowKeepsStores]_vars

\* a login returned shouldRetry after its first status check saw validated;
\* the device token it submitted is still the registry's entry and no session
\* is stored
C22_Witness ==
  /\ ret.op = "login"
  /\ ret.result.shouldRetry
  /\ ret.obs.firstValidated = 1
  /\ Has(deviceTokenStore, ret.user)
  /\ issued[ret.user] = Issued("issued", deviceTokenStore[ret.user])
  /\ ~Has(sessionStore, ret.user)

\* C23: a login call that returns shouldRetry returns from the await of the
\* "continue" post; that post is sent by the step in which the status check
\* saw validated, and it addresses the inquiry (pathfinderData.id) that the
\* call read its challenge from.
C23_ContinueBeforeShouldRetry ==
  /\ (ret.op = "login" /\ ret.result.shouldRetry) =>
       /\ ret.obs.pc = "continue"
       /\ ret.obs.inquiry \in InquiryIds
       /\ ret.obs.firstValidated = ret.obs.attempt
  /\ \A c \in Calls :
       call[c].pc = "continue" =>
         /\ call[c].firstValidated = call[c].attempt
         /\ call[c].firstValidated \in 1..maxAttempts
         /\ call[c].inquiry \in InquiryIds
  /\ sent.kind = "continue" =>
       \E c \in Calls :
         /\ call[c].pc = "continue"
         /\ sent.user = call[c].user
         /\ sent.inquiry = call[c].inquiry

\* a login returned shouldRetry after the last status check of the budget saw
\* validated and the "continue" post was made
C23_Witness ==
  /\ ret.op = "login"
  /\ ret.result.shouldRetry
  /\ ret.obs.pc = "continue"
  /\ ret.obs.inquiry = "i1"
  /\ ret.obs.firstValidated = maxAttempts

\* the token response of the login that returned was a failure: non-2xx or
\* with an error field, and none of the earlier rules applied
TokenFailure ==
  /\ ret.op = "login"
  /\ ret.obs.pc = "tokenRequest"
  /\ ret.obs.thrown = None
  /\ loginBranch(ret.obs.data) = "error"

InvalidCodeReply(reply) ==
  /\ reply.status \notin {"validated", "throw"}
  /\ reply.challenge
  /\ reply.remaining_attempts # -1

\* C25: a login with a code and a challenge id whose challenge request throws
\* or whose reply is not the invalid-code reply goes on to the token request,
\* which carries the code and the challenge id (body and header); login
\* returns from the challenge request on the invalid-code reply only.
C25_ChallengeFailsOpen ==
  /\ (sent.kind = "token" /\ sent.reply # NoReply) =>
       /\ ~InvalidCodeReply(sent.reply)
       /\ sent.mfaCode
       /\ sent.challengeId \in ChallengeIds
       /\ sent.header = sent.challengeId
       /\ \E c \in Calls : /\ call[c].pc = "tokenRequest"
                           /\ call[c].user = sent.user
                           /\ call[c].deviceToken = sent.deviceToken
  /\ (ret.op = "login" /\ ret.obs.pc = "challengeRespond") =>
       /\ InvalidCodeReply(ret.obs.reply)
       /\ ret.obs.thrown = None

\* the challenge request threw and the token request with the code and the
\* challenge id was sent
C25_Witness ==
  /\ sent.kind = "token"
  /\ sent.reply = ThrownReply
  /\ sent.mfaCode
  /\ sent.challengeId = "c1"

\* the positions that getPositions returned, and the records they come from
PositionsReturned ==
  /\ ret.op = "data"
  /\ ret.name = "getPositions"
  /\ ret.result.kind = "value"

\* the login that returned had received an access_token, its accounts
\* request failed, and setSession did not throw
AccountsFailed ==
  /\ ret.op = "login"
  /\ ret.obs.pc = "setSession"
  /\ ret.obs.accounts = "throw"
  /\ ret.obs.thrown = None

\* C26 as claimed: a position whose instrument or quote lookup failed is
\* returned with the default symbol and name and with currentPrice 0.
C26_DefaultsAsClaimed ==
  PositionsReturned =>
    LET kept == Nonzero(ret.obs.seen)
    IN /\ Len(ret.result.value) = Len(kept)
       /\ \A i \in 1..Len(kept) :
            (~kept[i].instrument \/ ~kept[i].quote) =>
              /\ ret.result.value[i].symbol = "UNKNOWN"
              /\ ret.result.value[i].name = "Unknown"
              /\ ret.result.value[i].currentPrice = 0

\* C26: a login whose accounts request fails still returns success and
\* stores the session, without an accountId.  getPositions returns one entry
\* per nonzero position of the reply, in order: with symbol "UNKNOWN", name
\* "Unknown" and currentPrice 0 when the instrument lookup failed, with the
\* instrument's symbol and name and currentPrice 0 when only the quote lookup
\* failed, and with the quoted price otherwise, whatever happened to the
\* lookups of the other positions.
C26_EnrichmentFailureTolerated ==
  /\ AccountsFailed =>
       /\ ret.result = SuccessResult
       /\ Has(sessionStore, ret.user)
       /\ sessionStore[ret.user].accessToken = ret.obs.data.access_token
       /\ sessionStore[ret.user].accountId = None
  /\ PositionsReturned =>
       LET kept == Nonzero(ret.obs.seen)
       IN /\ Len(ret.result.value) = Len(kept)
          /\ \A i \in 1..Len(kept) :
               LET position == kept[i]
                   entry == ret.result.value[i]
               IN /\ entry.quantity = position.quantity
                  /\ entry.averageCost = position.average_buy_price
                  /\ entry.symbol = IF position.instrument
                                      THEN position.symbol ELSE "UNKNOWN"
                  /\ entry.name = IF position.instrument
                                    THEN position.simple_name ELSE "Unknown"
                  /\ entry.currentPrice =
                       IF position.instrument /\ position.quote
                         THEN position.last_trade_price ELSE 0

\* getPositions returned three positions while the stored session has no
\* accountId: the first with its quote, the second without a quote, the third
\* without an instrument
C26_Witness ==
  /\ PositionsReturned
  /\ Has(sessionStore, ret.user)
  /\ sessionStore[ret.user].accountId = None
  /\ Len(ret.result.value) = 3
  /\ ret.result.value[1].currentPrice = 10
  /\ ret.result.value[2].symbol = "SYM"
  /\ ret.result.value[2].currentPrice = 0
  /\ ret.result.value[3].symbol = "UNKNOWN"
  /\ ret.result.value[3].currentPrice = 0

\* C21: the token request of the resubmission that the dialog makes after a
\* login answered shouldRetry carries the id of the challenge that login saw
\* validated as its challenge-response header.
C21_RetryCarriesChallenge ==
  (sent.kind = "token" /\ dialog.pc \in {"credentials:retry", "continue:retry"})
    => /\ dialog.resolved \in ChallengeIds
       /\ sent.header = dialog.resolved

\* an attempt ended still pending, as the claims use the word: the login
\* asked for device approval or reported that approval is outstanding
EndedPending(entry) ==
  /\ ~entry.thrown
  /\ ~entry.data.success
  /\ \/ entry.data.deviceVerificationRequired
     \/ entry.data.error.text \in
          {"Robinhood requires device verification.",
           "Please approve the login on your Robinhood app, then click Continue."}

\* the attempts of the run that were followed by another attempt
Followed ==
  IF dialog.pc = "idle" THEN Len(dialog.log) - 1 ELSE Len(dialog.log)

\* C27: one click on Continue makes at most 3 attempts, waiting 0, 2000 and
\* 3000 ms before the first, second and third; every attempt posts a login
\* request without code and challenge, which login answers by a token
\* request of its own; an attempt is followed by another only if it ended
\* still pending or threw, and only if it was the first or the second.
C27_ContinueAttempts ==
  dialog.handler = "continue" =>
    /\ dialog.attempt \in 0..2
    /\ Len(dialog.log) <= 3
    /\ dialog.pc \in {"continue:login", "continue:retry"} =>
         /\ Len(dialog.log) = dialog.attempt
         /\ dialog.delays = SubSeq(<<0, 2000, 3000>>, 1, dialog.attempt + 1)
         /\ dialog.logins >= dialog.attempt + 1
         /\ dialog.request = LoginBody(FALSE, None)
         /\ sent.kind = "token" => (~sent.mfaCode /\ sent.challengeId = None)
    /\ dialog.pc = "continue:delay" =>
         /\ Len(dialog.log) = dialog.attempt
         /\ dialog.delays = SubSeq(<<0, 2000, 3000>>, 1, dialog.attempt)
    /\ dialog.pc = "idle" =>
         /\ Len(dialog.log) = dialog.attempt + 1
         /\ dialog.delays = SubSeq(<<0, 2000, 3000>>, 1, dialog.attempt + 1)
    /\ \A i \in 1..Followed :
         /\ i < 3
         /\ dialog.log[i].thrown \/ EndedPending(dialog.log[i])

\* the third attempt of a run is in flight, after a first attempt that threw
\* and a second that ended still pending
C27_Witness ==
  /\ dialog.handler = "continue"
  /\ dialog.pc = "continue:login"
  /\ call[1].pc = "tokenRequest"
  /\ dialog.attempt = 2
  /\ dialog.delays = <<0, 2000, 3000>>
  /\ dialog.log[1].thrown
  /\ EndedPending(dialog.log[2])

\* the Continue run has ended after three attempts that all ended pending
AllPending ==
  /\ dialog.handler = "continue"
  /\ dialog.pc = "idle"
  /\ Len(dialog.log) = 3
  /\ \A i \in 1..3 : EndedPending(dialog.log[i])

\* the Continue run has ended on an attempt that failed otherwise
HardFailure ==
  /\ dialog.handler = "continue"
  /\ dialog.pc = "idle"
  /\ dialog.step = "device-verification"
  /\ ~dialog.log[Len(dialog.log)].thrown
  /\ ~EndedPending(dialog.log[Len(dialog.log)])

\* C28: when all three attempts of a Continue run end still pending, the
\* dialog stays in the device-verification step and shows the 'Verification
\* still pending ... try again' message; a run that ends on another failure
\* shows the login's error or 'Login failed. Please try again.', never that
\* message.
C28_StillPendingReported ==
  /\ AllPending =>
       /\ dialog.step = "device-verification"
       /\ dialog.error.text =
            "Verification still pending. Please approve on your Robinhood app, wait a moment, then try again."
       /\ dialog.error # dialog.log[3].data.error
  /\ HardFailure =>
       /\ dialog.error.text #
            "Verification still pending. Please approve on your Robinhood app, wait a moment, then try again."
       /\ dialog.error =
            IF dialog.log[Len(dialog.log)].data.error.text # None
              THEN dialog.log[Len(dialog.log)].data.error
              ELSE Msg("Login failed. Please try again.", 0)

\* three attempts ended still pending and the dialog shows the pending
\* message in the device-verification step
C28_Witness ==
  /\ AllPending
  /\ dialog.step = "device-verification"
  /\ dialog.error.text =
       "Verification still pending. Please approve on your Robinhood app, wait a moment, then try again."
  /\ dialog.log[3].data.deviceVerificationRequired

\* the token request of the login that 'request new verification' posts
NewVerificationSubmission ==
  /\ sent.kind = "token"
  /\ dialog.pc = "new:login"

\* C29 as claimed: the submission after 'request new verification' carries a
\* device token different from the one the registry held before the reset.
C29_DifferentTokenAfterReset ==
  NewVerificationSubmission => sent.got.prior.token # sent.deviceToken

\* C29: 'request new verification' posts the reset before the login, so the
\* registry holds no token when login starts: the submission, without code
\* and challenge, carries a token generated for it, which the registry then
\* holds.  Generation is random: the token may equal an earlier one.
C29_ResetThenNewToken ==
  /\ NewVerificationSubmission =>
       /\ sent.got.generated
       /\ sent.got.prior.state = "cleared"
       /\ Has(deviceTokenStore, "u1")
       /\ deviceTokenStore["u1"] = sent.deviceToken
       /\ ~sent.mfaCode
       /\ sent.challengeId = None
       /\ sent.header = None
  /\ (dialog.pc = "new:login" /\ call[1].pc = "idle" /\ ret.op = "none") =>
       ~Has(deviceTokenStore, "u1")
  /\ dialog.pc = "new:reset" => call[1].pc = "idle"

\* the submission after 'request new verification' carries the generated
\* token d2; the reset had removed d1
C29_Witness ==
  /\ NewVerificationSubmission
  /\ sent.got.generated
  /\ sent.got.prior = Issued("cleared", "d1")
  /\ sent.deviceToken = "d2"

\* C30: a code submitted in the mfa step leaves the dialog in the success
\* step, or in the mfa step with an error message (a new attempt is possible,
\* or the login failed); Continue in the device-verification step leaves it in
\* the success step, the mfa step, or the device-verification step with an
\* error message.  While a handler runs the step does not change, and the
\* step is never "error".
C30_AllowedTransitions ==
  /\ dialog.step \in {"credentials", "mfa", "device-verification", "success"}
  /\ dialog.handler = "mfa" =>
       /\ dialog.from = "mfa"
       /\ dialog.pc # "idle" => dialog.step = "mfa"
       /\ dialog.pc = "idle" =>
            \/ dialog.step = "success"
            \/ dialog.step = "mfa" /\ dialog.error # NoMsg
  /\ dialog.handler = "continue" =>
       /\ dialog.from = "device-verification"
       /\ dialog.pc # "idle" => dialog.step = "device-verification"
       /\ dialog.pc = "idle" =>
            \/ dialog.step = "success"
            \/ dialog.step = "mfa"
            \/ dialog.step = "device-verification" /\ dialog.error # NoMsg

\* a code was submitted, the login asked for device approval, and the dialog
\* is still in the mfa step, showing the login's message
C30_Witness ==
  /\ dialog.handler = "mfa"
  /\ dialog.pc = "idle"
  /\ dialog.step = "mfa"
  /\ dialog.error.text =
       "Please approve the login on your Robinhood app, then click Continue."

\* the flags of a login result that are true
Flags(result) ==
  {f \in {"success", "mfaRequired", "deviceVerificationRequired",
          "shouldRetry"} : result[f]}

\* C35: a result of login has at most one of the flags success, mfaRequired,
\* deviceVerificationRequired and shouldRetry; a result with success has no
\* error message, no challenge id, no challenge type and no other flag.
C35_ExclusiveFlags ==
  ret.op = "login" =>
    /\ Cardinality(Flags(ret.result)) <= 1
    /\ ret.result.success =>
         /\ ret.result.error = NoMsg
         /\ ret.result.challengeId = None
         /\ ret.result.challengeType = None
         /\ Flags(ret.result) = {"success"}

\* a login returned success after its session was stored
C35_Witness ==
  /\ ret.op = "login"
  /\ ret.result.success
  /\ ret.obs.pc = "setSession"
  /\ Has(sessionStore, ret.user)

\* the entry of a user in a store: a set with the entry, or the empty set
Entry(store, userId) == IF Has(store, userId) THEN {store[userId]} ELSE {}

\* a step of the login call in slot c: only the step that returns success
\* writes the session store (the session the call built) and clears the
\* device token; every other step leaves the user's session as it is and
\* leaves the device token of the call in the registry
LoginStepEffect(c) ==
  (call[c].pc \in LoginPcs /\ call'[c] # call[c]) =>
    IF ret'.op = "login" /\ ret'.result.success
      THEN /\ call[c].pc = "setSession"
           /\ sessionStore' =
                setSession(sessionStore, call[c].user, call[c].session)
      ELSE /\ sessionStore' = sessionStore
           /\ deviceTokenStore' = deviceTokenStore

C37_LogoutWins ==
  (ret.op = "login" /\ ret.result.success) => ~ret.obs.loggedOut

\* C40: when the code submitted from the code step is rejected as invalid,
\* the mfaRequired result names the kind of challenge that the dialog was
\* given when the challenge was issued.
C40_KindPreserved ==
  ( /\ ret.op = "login"
    /\ ret.obs.pc = "challengeRespond"
    /\ ret.result.mfaRequired
    /\ dialog.pc = "mfa:login"
    /\ dialog.challengeId = ret.result.challengeId ) =>
      ret.result.challengeType = dialog.challengeType

\* the 'continue' handler is running or has run last
Continuing == dialog.handler = "continue"

\* C38 as stated: the 'continue' handler issues at most 4 login submissions
C38_AtMostFour == Continuing => dialog.logins <= 4

\* a step of the 'continue' handler that takes the response of the automatic
\* resubmission: the handler stops, unless the resubmission threw and the
\* catch of the loop sends it to the next attempt
ResubmissionStops ==
  (Continuing /\ dialog.pc = "continue:retry" /\ dialog' # dialog) =>
    \/ dialog'.pc = "idle"
    \/ /\ dialog'.pc = "continue:delay"
       /\ dialog'.attempt = dialog.attempt + 1
       /\ dialog'.log[Len(dialog'.log)].thrown

\* C38: every run of the 'continue' handler makes at most maxRetries
\* attempts with at most two login submissions each (the attempt and one
\* automatic resubmission), at most 6 in total, and then stops with the
\* loading flag cleared; the response of a resubmission stops the handler
\* unless the resubmission threw.
C38_BoundedRun ==
  /\ [](Continuing =>
          /\ dialog.attempt <= maxRetries - 1
          /\ dialog.logins <= 2 * (dialog.attempt + 1)
          /\ Len(dialog.log) <= dialog.attempt + 1
          /\ dialog.pc \in {"idle", "continue:delay", "continue:login",
                            "continue:retry"}
          /\ (dialog.logins > 4 =>
                \E i \in 1..Len(dialog.log) : dialog.log[i].thrown))
  /\ [][ResubmissionStops]_vars

\* the handler has stopped after the resubmission of its third attempt
C38_Witness ==
  /\ Continuing
  /\ dialog.pc = "idle"
  /\ dialog.attempt = maxRetries - 1
  /\ dialog.logins = 6

\* the step belongs to the user: it returns to the user, or it moves a call
\* of the user
StepOf(userId) ==
  \/ ret'.op # "none" /\ ret'.user = userId
  \/ \E c \in Calls : /\ call'[c] # call[c]
                      /\ userId \in {call[c].user, call'[c].user}

\* the store as far as the user is concerned
Only(store, userId) == [x \in DOMAIN store \cap {userId} |-> store[x]]

\* a step that is not the user's leaves the user's session record and device
\* token as they are, and a step of the user moves no call of another user
StepIsolated(userId) ==
  /\ ( \/ Entry(sessionStore', userId) # Entry(sessionStore, userId)
       \/ Entry(deviceTokenStore', userId) # Entry(deviceTokenStore, userId) )
       => StepOf(userId)
  /\ StepOf(userId) =>
       \A c \in Calls :
         (call'[c] # call[c]) => userId \in {call[c].user, call'[c].user}

\* what a step returns to the user is read from the user's own entries
ResultOwn(userId) ==
  (ret'.op # "none" /\ ret'.user = userId) =>
    /\ ret'.op = "status" =>
         ret'.result =
           getConnectionStatus(Only(sessionStore, userId), userId, now)
    /\ ret'.op \in {"resetDevice", "logout"} =>
         ret'.held = Entry(deviceTokenStore, userId)
    /\ (ret'.op = "login" /\ ret'.result.success) =>
         /\ Entry(sessionStore', userId) = {ret'.obs.session}
         /\ ret'.obs.user = userId

\* C39: operations are isolated per user: a step made for one user creates,
\* changes or removes no session record and no device token of another
\* user, and what it returns is computed from the user's own entries.
C39_PerUserIsolation ==
  [][\A u \in Users : StepIsolated(u) /\ ResultOwn(u)]_vars

\* while u2 is connected and holds no device token, u1 has logged out
C39_Witness ==
  /\ ret.op = "logout"
  /\ ret.user = "u1"
  /\ ret.held # {}
  /\ Has(sessionStore, "u2")
  /\ ~Has(sessionStore, "u1")
  /\ call[2].pc # "idle"

\* getTodayOptionsOrders has returned its orders to a direct caller
OrdersReturned ==
  /\ ret.op = "data"
  /\ ret.name = "getTodayOptionsOrders"
  /\ ~ret.obs.tool
  /\ ret.result.kind = "value"

\* the orders of all pages are in reverse chronological order
ReverseChronological(pages) ==
  LET all == Flatten(pages)
  IN \A i \in 1..Len(all), j \in 1..Len(all) :
       i < j => all[i].created_at >= all[j].created_at

\* the pages up to and including the first page that satisfies Stop, all
\* pages when there is none
UpToFirst(pages, Stop(_)) ==
  LET stops == {i \in 1..Len(pages) : Stop(pages[i])}
      last == IF stops = {} THEN Len(pages)
              ELSE CHOOSE i \in stops : \A j \in stops : i <= j
  IN SubSeq(pages, 1, last)

HasOlder(page) == \E i \in 1..Len(page) : page[i].created_at < todayStr
EndsOlder(page) == page # <<>> /\ page[Len(page)].created_at < todayStr

\* C34 as stated: the pages fetched are those up to the first page that
\* contains an order older than today
C34_StopsAtAnyOlderOrder ==
  OrdersReturned =>
    ret.obs.seen = Flatten(UpToFirst(ret.obs.world.orders, HasOlder))

\* C34: the today's-trades query stops fetching after the first page whose
\* last order is older than today; when the orders arrive in reverse
\* chronological order this is the first page that contains an older order,
\* and the result is that of fetching every page and keeping the orders of
\* today.
C34_StopsAfterOlderLastOrder ==
  OrdersReturned =>
    /\ ret.obs.seen = Flatten(UpToFirst(ret.obs.world.orders, EndsOlder))
    /\ ReverseChronological(ret.obs.world.orders) =>
         /\ ret.obs.seen = Flatten(UpToFirst(ret.obs.world.orders, HasOlder))
         /\ ret.result.value =
              SelectSeq(Flatten(ret.obs.world.orders),
                        LAMBDA order : order.created_at = todayStr)

\* the first page holds an order of today and an older one, so the second
\* page is not fetched
C34_Witness ==
  /\ OrdersReturned
  /\ ReverseChronological(ret.obs.world.orders)
  /\ Len(ret.obs.world.orders) = 2
  /\ ret.obs.world.orders[2] # <<>>
  /\ ret.obs.seen = ret.obs.world.orders[1]
  /\ Len(ret.result.value) = 1
  /\ Len(ret.obs.seen) = 2

\* getPortfolio has returned the portfolio of its fallback path to a direct
\* caller
FallbackReturned ==
  /\ ret.op = "data"
  /\ ret.name = "getPortfolio"
  /\ ~ret.obs.tool
  /\ ret.result.kind = "value"
  /\ ret.result.value.path = "fallback"

\* quantity * previousClose over the stock positions that were priced
StocksPreviousClose(positions) ==
  LET priced == SelectSeq(positions,
                          LAMBDA p : p.quantity # 0 /\ p.instrument /\ p.quote)
  IN SumValues([i \in 1..Len(priced) |->
                  priced[i].quantity * priced[i].previous_close],
               Len(priced))

\* C33: on the fallback path the previous-close baseline is cash plus the
\* sum of quantity * previousClose over the stock positions only, so
\* dayChange = (stocks value - stocks previous-close value) + crypto value
\* + options value: crypto and options enter total equity, never the baseline.
C33_FallbackBaseline ==
  FallbackReturned =>
    LET portfolio == ret.result.value
        stocksPrevious == StocksPreviousClose(Flatten(ret.obs.world.stocks))
        crypto == IF ret.obs.world.holdingsOk
                    THEN totalMarketValue(
                           formattedHoldings(ret.obs.world.holdings))
                    ELSE 0
        options == IF ret.obs.world.optionsOk
                     THEN totalMarketValue(
                            formattedOptions(firstPage(ret.obs.world.options)))
                     ELSE 0
    IN /\ portfolio.totalValue =
            portfolio.cash + portfolio.stocksEquity + crypto + options
       /\ portfolio.totalValue - portfolio.dayChange =
            portfolio.cash + stocksPrevious
       /\ portfolio.dayChange =
            (portfolio.stocksEquity - stocksPrevious) + crypto + options

\* a fallback portfolio with stocks, crypto and options: the day change
\* holds the whole crypto and options value
C33_Witness ==
  /\ FallbackReturned
  /\ ret.result.value.stocksEquity > 0
  /\ ret.result.value.cryptoEquity > 0
  /\ ret.obs.world.optionsOk
  /\ ret.result.value.dayChange >
       ret.result.value.stocksEquity
         - StocksPreviousClose(Flatten(ret.obs.world.stocks))
         + ret.result.value.cryptoEquity

\* getPortfolio has returned the portfolio of the unified account to a
\* direct caller
UnifiedReturned ==
  /\ ret.op = "data"
  /\ ret.name = "getPortfolio"
  /\ ~ret.obs.tool
  /\ ret.result.kind = "value"
  /\ ret.result.value.path = "unified"

\* C31: on the unified path dayChange = totalEquity - totalPreviousClose,
\* where totalPreviousClose is the first present of the total-account
\* previous close, the generic previous close and the stocks-only portfolio
\* previous close, and dayChangePercent = dayChange / totalPreviousClose * 100,
\* or 0 when totalPreviousClose <= 0.
C31_UnifiedDayChange ==
  UnifiedReturned =>
    LET account == ret.obs.world.account
        portfolio == ret.result.value
        chain == <<account.total_previous_close, account.previous_close,
                   account.portfolio_previous_close>>
        first == CHOOSE i \in 1..3 :
                   /\ chain[i] # Absent
                   /\ \A j \in 1..(i - 1) : chain[j] = Absent
    IN /\ portfolio.totalValue = account.total_equity
       /\ portfolio.dayChange = account.total_equity - chain[first]
       /\ IF chain[first] <= 0
            THEN portfolio.dayChangePercent.num = 0
            ELSE /\ portfolio.dayChangePercent.num = portfolio.dayChange * 100
                 /\ portfolio.dayChangePercent.den = chain[first]

\* without a total-account previous close the generic previous close of 100
\* is the baseline: the account of 50 has lost 50, which is 50 percent
C31_Witness ==
  /\ UnifiedReturned
  /\ ret.obs.world.account.total_previous_close = Absent
  /\ ret.obs.world.account.previous_close = 100
  /\ ret.result.value.dayChange = -50
  /\ ret.result.value.dayChangePercent = [num |-> -5000, den |-> 100]

\* C32: on the unified path each per-asset field of the snapshot (crypto
\* buying power, options buying power, stocks equity, crypto equity) is there
\* exactly when the broker reports the corresponding field, and is omitted,
\* not defaulted to a number, when the broker does not report it.
C32_PerAssetFieldsWhenReported ==
  UnifiedReturned =>
    LET account == ret.obs.world.account
        portfolio == ret.result.value
    IN /\ (portfolio.cryptoBuyingPower = Absent)
            <=> (account.crypto_buying_power = Absent)
       /\ (portfolio.optionsBuyingPower = Absent)
            <=> (account.options_buying_power = Absent)
       /\ (portfolio.stocksEquity = Absent) <=> (account.equities = Absent)
       /\ (portfolio.cryptoEquity = Absent) <=> (account.crypto = Absent)

====
